---- MODULE Spec2Model ----
(***************************************************************************)
(* HTTP/1.1 request and response messages of habanero: the consuming       *)
(* builders, the created immutable messages, the header container          *)
(* (BTreeMap<String, String>) and the wire rendering (impl Display).       *)
(*                                                                         *)
(* A String is modelled as what it is, its UTF-8 byte sequence: String::len *)
(* is the number of bytes, String's Ord is the bytewise lexicographic      *)
(* order, and the wire text is a byte sequence.                            *)
(***************************************************************************)
EXTENDS Integers, Sequences, FiniteSets, TLC

(***************************************************************************)
(* Bounds of the model.                                                    *)
(***************************************************************************)
\* Longest enumerated body text handed to body/json/url_encoded/html, in
\* characters.
MaxLen == 1

(***************************************************************************)
(* Text: string literals of the source as UTF-8 bytes.                     *)
(***************************************************************************)
\* The ASCII characters 32..95 and 97..126, in code order.
AsciiLow == " !\"#$%&'()*+,-./0123456789:;<=>?@ABCDEFGHIJKLMNOPQRSTUVWXYZ[\\]^_"
AsciiHigh == "abcdefghijklmnopqrstuvwxyz{|}~"

\* The byte of each one-character ASCII literal.
ByteOf ==
  [c \in {SubSeq(AsciiLow, i, i) : i \in 1..Len(AsciiLow)}
           \cup {SubSeq(AsciiHigh, i, i) : i \in 1..Len(AsciiHigh)} |->
     IF \E i \in 1..Len(AsciiLow) : SubSeq(AsciiLow, i, i) = c
     THEN 31 + (CHOOSE i \in 1..Len(AsciiLow) : SubSeq(AsciiLow, i, i) = c)
     ELSE 96 + (CHOOSE i \in 1..Len(AsciiHigh) : SubSeq(AsciiHigh, i, i) = c)]

\* String::from / Into<String> of an ASCII literal: its bytes.
Str(s) == [i \in 1..Len(s) |-> ByteOf[SubSeq(s, i, i)]]

\* The string literals of the builders and of the format strings.
CONTENT_TYPE == Str("Content-Type")
CONTENT_LENGTH == Str("Content-Length")
APPLICATION_JSON == Str("application/json")
APPLICATION_X_WWW_FORM_URLENCODED == Str("application/x-www-form-urlencoded")
TEXT_HTML == Str("text/html")
SP == Str(" ")
COLON_SP == Str(": ")
SP_HTTP_1_1 == Str(" HTTP/1.1")
HTTP_1_1_SP == Str("HTTP/1.1 ")

\* "\n" of the format strings.
LF == <<10>>

\* str::to_uppercase, on ASCII text: a..z become A..Z, other bytes are kept.
to_uppercase(s) ==
  [i \in 1..Len(s) |-> IF s[i] >= 97 /\ s[i] <= 122 THEN s[i] - 32 ELSE s[i]]

\* usize::to_string / Display of an unsigned integer: its decimal digits,
\* most significant first, "0" for zero.
RECURSIVE to_string(_)
to_string(n) ==
  IF n < 10 THEN <<48 + n>> ELSE to_string(n \div 10) \o <<48 + (n % 10)>>

\* Mutation of String_len: the number of characters (str::chars().count()),
\* every byte that is not a UTF-8 continuation byte.
String_len_chars(s) == Cardinality({i \in 1..Len(s) : s[i] < 128 \/ s[i] > 191})

\* String::len: the length of the string in bytes.
String_len(s) == Len(s)

\* Ord for String: bytewise lexicographic order, a proper prefix first.
RECURSIVE StrLess(_, _)
StrLess(a, b) ==
  IF b = <<>> THEN FALSE
  ELSE IF a = <<>> THEN TRUE
  ELSE IF a[1] # b[1] THEN a[1] < b[1]
  ELSE StrLess(Tail(a), Tail(b))

(***************************************************************************)
(* Header container: BTreeMap<String, String>, held as its entries in      *)
(* iteration order (ascending keys).                                       *)
(***************************************************************************)
BTreeMap_new == <<>>

\* Mutation of BTreeMap_insert: a new key is entered behind the entries held,
\* as a container that keeps insertion order would.
RECURSIVE BTreeMap_insert_unsorted(_, _, _)
BTreeMap_insert_unsorted(m, key, value) ==
  IF m = <<>> THEN << <<key, value>> >>
  ELSE IF m[1][1] = key THEN << <<key, value>> >> \o Tail(m)
  ELSE << m[1] >> \o BTreeMap_insert_unsorted(Tail(m), key, value)

\* Mutation of BTreeMap_insert: the value of a key already held is kept
\* (first write wins).
RECURSIVE BTreeMap_insert_keep(_, _, _)
BTreeMap_insert_keep(m, key, value) ==
  IF m = <<>> THEN << <<key, value>> >>
  ELSE IF m[1][1] = key THEN m
  ELSE IF StrLess(key, m[1][1]) THEN << <<key, value>> >> \o m
  ELSE << m[1] >> \o BTreeMap_insert_keep(Tail(m), key, value)

\* BTreeMap::insert: the value of an existing key is replaced in place, a new
\* key is entered at its place in the key order.
RECURSIVE BTreeMap_insert(_, _, _)
BTreeMap_insert(m, key, value) ==
  IF m = <<>> THEN << <<key, value>> >>
  ELSE IF m[1][1] = key THEN << <<key, value>> >> \o Tail(m)
  ELSE IF StrLess(key, m[1][1]) THEN << <<key, value>> >> \o m
  ELSE << m[1] >> \o BTreeMap_insert(Tail(m), key, value)

\* Option<&str>
None == [some |-> FALSE]
Some(v) == [some |-> TRUE, value |-> v]

\* Mutation of BTreeMap_get: keys are compared without regard to letter case.
BTreeMap_get_ignore_case(m, key) ==
  IF \E i \in 1..Len(m) : to_uppercase(m[i][1]) = to_uppercase(key)
  THEN Some(m[CHOOSE i \in 1..Len(m) :
                to_uppercase(m[i][1]) = to_uppercase(key)][2])
  ELSE None

\* BTreeMap::get(..).map(String::as_str)
BTreeMap_get(m, key) ==
  IF \E i \in 1..Len(m) : m[i][1] = key
  THEN Some(m[CHOOSE i \in 1..Len(m) : m[i][1] = key][2])
  ELSE None

(***************************************************************************)
(* Verb (http1::request and request) and Code (http1::response).           *)
(***************************************************************************)
\* enum Verb of http1/request.rs; a variant is named by its identifier.
Verbs ==
  {"Connect", "Delete", "Get", "Head", "Options", "Patch", "Post", "Put", "Trace"}

\* enum Verb of request.rs.
request_Verbs ==
  {"Connect", "Delete", "Get", "Head", "Options", "Patch", "Post", "Put", "Trace"}

\* #[derive(Debug)] on a field-less enum: the variant's identifier.
Verb_Debug(verb) == Str(verb)

\* Mutation of Verb_fmt: the Debug name as it is, to_uppercase left out.
Verb_fmt_debug(verb) == Verb_Debug(verb)

\* impl Display for Verb (http1/request.rs).
Verb_fmt(verb) == to_uppercase(Verb_Debug(verb))

\* impl Display for Verb (request.rs).
request_Verb_fmt(verb) == to_uppercase(Verb_Debug(verb))

\* enum Code of http1/response.rs.
Codes ==
  {"Continue", "SwitchingProtocols", "Processing",
   "EarlyHints", "Ok", "Created",
   "Accepted", "NonAuthoritativeInformation", "NoContent",
   "ResetContent", "PartialContent", "MultiStatus",
   "AlreadyReported", "IMUsed", "MultipleChoices",
   "MovedPermanently", "Found", "SeeOther",
   "NotModified", "TemporaryRedirect", "PermanentRedirect",
   "BadRequest", "Unauthorized", "PaymentRequired",
   "Forbidden", "NotFound", "MethodNotAllowed",
   "NotAcceptable", "ProxyAuthenticationRequired", "RequestTimeout",
   "Conflict", "Gone", "LengthRequired",
   "PreconditionFailed", "ContentTooLarge", "UriTooLong",
   "UnsupportedMediaType", "RangeNotSatisfiable", "ExpectationFailed",
   "ImATeapot", "MisdirectedRequest", "UnprocessableContent",
   "Locked", "FailedDependency", "TooEarly",
   "UpgradeRequired", "PreconditionRequired", "TooManyRequests",
   "RequestHeaderFieldsTooLarge", "UnavailableForLegalReasons", "InternalServerError",
   "NotImplemented", "BadGateway", "ServiceUnavailable",
   "GatewayTimeout", "HTTPVersionNotSupported", "VariantAlsoNegotiates",
   "InsufficientStorage", "LoopDetected", "NotExtended",
   "NetworkAuthenticationRequired"}

\* The discriminant of a Code variant: *self as u16.
Code_as_u16(code) ==
  CASE code = "Continue" -> 100
    [] code = "SwitchingProtocols" -> 101
    [] code = "Processing" -> 102
    [] code = "EarlyHints" -> 103
    [] code = "Ok" -> 200
    [] code = "Created" -> 201
    [] code = "Accepted" -> 202
    [] code = "NonAuthoritativeInformation" -> 203
    [] code = "NoContent" -> 204
    [] code = "ResetContent" -> 205
    [] code = "PartialContent" -> 206
    [] code = "MultiStatus" -> 207
    [] code = "AlreadyReported" -> 208
    [] code = "IMUsed" -> 226
    [] code = "MultipleChoices" -> 300
    [] code = "MovedPermanently" -> 301
    [] code = "Found" -> 302
    [] code = "SeeOther" -> 303
    [] code = "NotModified" -> 304
    [] code = "TemporaryRedirect" -> 307
    [] code = "PermanentRedirect" -> 308
    [] code = "BadRequest" -> 400
    [] code = "Unauthorized" -> 401
    [] code = "PaymentRequired" -> 402
    [] code = "Forbidden" -> 403
    [] code = "NotFound" -> 404
    [] code = "MethodNotAllowed" -> 405
    [] code = "NotAcceptable" -> 406
    [] code = "ProxyAuthenticationRequired" -> 407
    [] code = "RequestTimeout" -> 408
    [] code = "Conflict" -> 409
    [] code = "Gone" -> 410
    [] code = "LengthRequired" -> 411
    [] code = "PreconditionFailed" -> 412
    [] code = "ContentTooLarge" -> 413
    [] code = "UriTooLong" -> 414
    [] code = "UnsupportedMediaType" -> 415
    [] code = "RangeNotSatisfiable" -> 416
    [] code = "ExpectationFailed" -> 417
    [] code = "ImATeapot" -> 418
    [] code = "MisdirectedRequest" -> 421
    [] code = "UnprocessableContent" -> 422
    [] code = "Locked" -> 423
    [] code = "FailedDependency" -> 424
    [] code = "TooEarly" -> 425
    [] code = "UpgradeRequired" -> 426
    [] code = "PreconditionRequired" -> 428
    [] code = "TooManyRequests" -> 429
    [] code = "RequestHeaderFieldsTooLarge" -> 431
    [] code = "UnavailableForLegalReasons" -> 451
    [] code = "InternalServerError" -> 500
    [] code = "NotImplemented" -> 501
    [] code = "BadGateway" -> 502
    [] code = "ServiceUnavailable" -> 503
    [] code = "GatewayTimeout" -> 504
    [] code = "HTTPVersionNotSupported" -> 505
    [] code = "VariantAlsoNegotiates" -> 506
    [] code = "InsufficientStorage" -> 507
    [] code = "LoopDetected" -> 508
    [] code = "NotExtended" -> 510
    [] code = "NetworkAuthenticationRequired" -> 511

\* The match of impl Display for Code: the readable phrase of a variant.
Code_readable(code) ==
  CASE code = "Continue" -> "Continue"
    [] code = "SwitchingProtocols" -> "Switching Protocols"
    [] code = "Processing" -> "Processing"
    [] code = "EarlyHints" -> "Early Hints"
    [] code = "Ok" -> "OK"
    [] code = "Created" -> "Created"
    [] code = "Accepted" -> "Accepted"
    [] code = "NonAuthoritativeInformation" -> "Non-Authoritative Information"
    [] code = "NoContent" -> "No Content"
    [] code = "ResetContent" -> "Reset Content"
    [] code = "PartialContent" -> "Partial Content"
    [] code = "MultiStatus" -> "Multi-Status"
    [] code = "AlreadyReported" -> "Already Reported"
    [] code = "IMUsed" -> "IM Used"
    [] code = "MultipleChoices" -> "Multiple Choices"
    [] code = "MovedPermanently" -> "Moved Permanently"
    [] code = "Found" -> "Found"
    [] code = "SeeOther" -> "See Other"
    [] code = "NotModified" -> "Not Modified"
    [] code = "TemporaryRedirect" -> "Temporary Redirect"
    [] code = "PermanentRedirect" -> "Permanent Redirect"
    [] code = "BadRequest" -> "Bad Request"
    [] code = "Unauthorized" -> "Unauthorized"
    [] code = "PaymentRequired" -> "Payment Required"
    [] code = "Forbidden" -> "Forbidden"
    [] code = "NotFound" -> "Not Found"
    [] code = "MethodNotAllowed" -> "Method Not Allowed"
    [] code = "NotAcceptable" -> "Not Acceptable"
    [] code = "ProxyAuthenticationRequired" -> "Proxy Authentication Required"
    [] code = "RequestTimeout" -> "Request Timeout"
    [] code = "Conflict" -> "Conflict"
    [] code = "Gone" -> "Gone"
    [] code = "LengthRequired" -> "Length Required"
    [] code = "PreconditionFailed" -> "Precondition Failed"
    [] code = "ContentTooLarge" -> "Content Too Large"
    [] code = "UriTooLong" -> "Uri Too Long"
    [] code = "UnsupportedMediaType" -> "Unsupported Media Type"
    [] code = "RangeNotSatisfiable" -> "Range Not Satisfiable"
    [] code = "ExpectationFailed" -> "Expectation Failed"
    [] code = "ImATeapot" -> "I'm a teapot"
    [] code = "MisdirectedRequest" -> "Misdirected Request"
    [] code = "UnprocessableContent" -> "Unprocessable Content"
    [] code = "Locked" -> "Locked"
    [] code = "FailedDependency" -> "Failed Dependency"
    [] code = "TooEarly" -> "Too Early"
    [] code = "UpgradeRequired" -> "Upgrade Required"
    [] code = "PreconditionRequired" -> "Precondition Required"
    [] code = "TooManyRequests" -> "Too Many Requests"
    [] code = "RequestHeaderFieldsTooLarge" -> "Request Header Fields Too Large"
    [] code = "UnavailableForLegalReasons" -> "Unavailable For Legal Reasons"
    [] code = "InternalServerError" -> "Internal Server Error"
    [] code = "NotImplemented" -> "Not Implemented"
    [] code = "BadGateway" -> "Bad Gateway"
    [] code = "ServiceUnavailable" -> "Service Unavailable"
    [] code = "GatewayTimeout" -> "Gateway Timeout"
    [] code = "HTTPVersionNotSupported" -> "Http Version Not Supported"
    [] code = "VariantAlsoNegotiates" -> "Variant Also Negotiates"
    [] code = "InsufficientStorage" -> "Insufficient Storage"
    [] code = "LoopDetected" -> "Loop Detected"
    [] code = "NotExtended" -> "Not Extended"
    [] code = "NetworkAuthenticationRequired" -> "Network Authentication Required"

\* Mutation of Code_fmt: the class of the code (its hundreds) is written in
\* place of the code.
Code_fmt_class(code) ==
  to_string((Code_as_u16(code) \div 100) * 100) \o SP
    \o Str(Code_readable(code))

\* impl Display for Code: write!(f, "{code} {readable}").
Code_fmt(code) ==
  to_string(Code_as_u16(code)) \o SP \o Str(Code_readable(code))

(***************************************************************************)
(* http1::request: Builder and Request.                                    *)
(***************************************************************************)
RequestBuilder_new(verb, target) ==
  [body |-> <<>>, headers |-> BTreeMap_new, target |-> target, verb |-> verb]

\* Mutation of RequestBuilder_body: the text is appended to the body held
\* (String::push_str).
RequestBuilder_body_append(self, body) ==
  [self EXCEPT !.body = self.body \o body]

RequestBuilder_body(self, body) == [self EXCEPT !.body = body]

\* Mutation of RequestBuilder_header: a key that is empty or holds a line
\* feed is refused with an error outcome.
RequestBuilder_header_checked(self, key, value) ==
  IF key = <<>> \/ \E i \in 1..Len(key) : key[i] = 10
  THEN [ok |-> FALSE, error |-> 1]
  ELSE [self EXCEPT !.headers = BTreeMap_insert(self.headers, key, value)]

RequestBuilder_header(self, key, value) ==
  [self EXCEPT !.headers = BTreeMap_insert(self.headers, key, value)]

\* Mutation of RequestBuilder_json: the headers are started afresh
\* (BTreeMap::new()) before the two headers are written.
RequestBuilder_json_reset(self, body) ==
  LET len == String_len(body)
  IN  RequestBuilder_header(
        RequestBuilder_header(
          [RequestBuilder_body(self, body) EXCEPT !.headers = BTreeMap_new],
          CONTENT_TYPE, APPLICATION_JSON),
        CONTENT_LENGTH, to_string(len))

RequestBuilder_json(self, body) ==
  LET len == String_len(body)
  IN  RequestBuilder_header(
        RequestBuilder_header(RequestBuilder_body(self, body),
                              CONTENT_TYPE, APPLICATION_JSON),
        CONTENT_LENGTH, to_string(len))

RequestBuilder_url_encoded(self, body) ==
  LET len == String_len(body)
  IN  RequestBuilder_header(
        RequestBuilder_header(RequestBuilder_body(self, body),
                              CONTENT_TYPE,
                              APPLICATION_X_WWW_FORM_URLENCODED),
        CONTENT_LENGTH, to_string(len))

Request_new(verb, target, headers, body) ==
  [body |-> body, headers |-> headers, target |-> target, verb |-> verb]

\* Mutation of RequestBuilder_create: the Request is made with a new, empty
\* body (String::new()) instead of the builder's.
RequestBuilder_create_empty_body(self) ==
  Request_new(self.verb, self.target, self.headers, <<>>)

RequestBuilder_create(self) ==
  Request_new(self.verb, self.target, self.headers, self.body)

Request_build(verb, target) == RequestBuilder_new(verb, target)

Request_body(self) == self.body
Request_header(self, key) == BTreeMap_get(self.headers, key)
Request_headers(self) == self.headers
Request_target(self) == self.target
Request_verb(self) == self.verb

\* headers.iter().fold(String::new(), |fold, pair| format!("{fold}{}: {}\n", ..))
RECURSIVE headers_fold(_, _)
headers_fold(fold, pairs) ==
  IF pairs = <<>> THEN fold
  ELSE headers_fold(fold \o pairs[1][1] \o COLON_SP \o pairs[1][2] \o LF,
                    Tail(pairs))

\* Mutation of Request_fmt: the lines end in CR LF.
Request_fmt_crlf(self) ==
  Verb_fmt(self.verb) \o SP \o self.target \o SP_HTTP_1_1 \o <<13>> \o LF
    \o headers_fold(<<>>, self.headers) \o <<13>> \o LF \o self.body

\* impl Display for Request: write!(f, "{} {} HTTP/1.1\n{}\n{}", ..).
\* Mutation of Request_fmt: the body is left out of the text.
Request_fmt_no_body(self) ==
  Verb_fmt(self.verb) \o SP \o self.target \o SP_HTTP_1_1 \o LF
    \o headers_fold(<<>>, self.headers) \o LF

Request_fmt(self) ==
  Verb_fmt(self.verb) \o SP \o self.target \o SP_HTTP_1_1 \o LF
    \o headers_fold(<<>>, self.headers) \o LF \o self.body

(***************************************************************************)
(* http1::response: Builder and Response.                                  *)
(***************************************************************************)
ResponseBuilder_new(code) ==
  [body |-> <<>>, code |-> code, headers |-> BTreeMap_new]

\* Mutation of ResponseBuilder_body: the Content-Length header is set to the
\* byte length of the new body.
ResponseBuilder_body_sync(self, body) ==
  [self EXCEPT !.body = body,
               !.headers = BTreeMap_insert(self.headers, CONTENT_LENGTH,
                                           to_string(String_len(body)))]

ResponseBuilder_body(self, body) == [self EXCEPT !.body = body]

\* Mutation of ResponseBuilder_header: the headers keep the order in which
\* their keys were first written (a Vec of pairs).
ResponseBuilder_header_appended(self, key, value) ==
  [self EXCEPT !.headers = BTreeMap_insert_unsorted(self.headers, key, value)]

ResponseBuilder_header(self, key, value) ==
  [self EXCEPT !.headers = BTreeMap_insert(self.headers, key, value)]

\* Mutation of ResponseBuilder_html: the Content-Type of json kept.
ResponseBuilder_html_json(self, body) ==
  LET len == to_string(String_len(body))
  IN  ResponseBuilder_header(
        ResponseBuilder_header(ResponseBuilder_body(self, body),
                               CONTENT_TYPE, APPLICATION_JSON),
        CONTENT_LENGTH, len)

ResponseBuilder_html(self, body) ==
  LET len == to_string(String_len(body))
  IN  ResponseBuilder_header(
        ResponseBuilder_header(ResponseBuilder_body(self, body),
                               CONTENT_TYPE, TEXT_HTML),
        CONTENT_LENGTH, len)

ResponseBuilder_json(self, body) ==
  LET len == to_string(String_len(body))
  IN  ResponseBuilder_header(
        ResponseBuilder_header(ResponseBuilder_body(self, body),
                               CONTENT_TYPE, APPLICATION_JSON),
        CONTENT_LENGTH, len)

\* Mutation of ResponseBuilder_url_encoded: a Content-Type the builder holds
\* already is kept (entry(..).or_insert(..)).
ResponseBuilder_url_encoded_keep_type(self, body) ==
  LET len == to_string(String_len(body))
      typed == IF BTreeMap_get(self.headers, CONTENT_TYPE) = None
               THEN ResponseBuilder_header(ResponseBuilder_body(self, body),
                      CONTENT_TYPE, APPLICATION_X_WWW_FORM_URLENCODED)
               ELSE ResponseBuilder_body(self, body)
  IN  ResponseBuilder_header(typed, CONTENT_LENGTH, len)

ResponseBuilder_url_encoded(self, body) ==
  LET len == to_string(String_len(body))
  IN  ResponseBuilder_header(
        ResponseBuilder_header(ResponseBuilder_body(self, body),
                               CONTENT_TYPE,
                               APPLICATION_X_WWW_FORM_URLENCODED),
        CONTENT_LENGTH, len)

Response_new(code, headers, body) ==
  [body |-> body, code |-> code, headers |-> headers]

ResponseBuilder_create(self) ==
  Response_new(self.code, self.headers, self.body)

Response_build(code) == ResponseBuilder_new(code)

Response_body(self) == self.body
Response_code(self) == self.code
Response_header(self, key) == BTreeMap_get(self.headers, key)
Response_headers(self) == self.headers

\* Mutation of Response_fmt: the line that ends the header block is left out.
Response_fmt_no_blank_line(self) ==
  HTTP_1_1_SP \o Code_fmt(self.code) \o LF
    \o headers_fold(<<>>, self.headers) \o self.body

\* impl Display for Response: write!(f, "HTTP/1.1 {}\n{}\n{}", ..).
Response_fmt(self) ==
  HTTP_1_1_SP \o Code_fmt(self.code) \o LF
    \o headers_fold(<<>>, self.headers) \o LF \o self.body

(***************************************************************************)
(* http::version and request: Version, and the Builder and Request that    *)
(* carry a version.                                                        *)
(***************************************************************************)
Versions == {"Http1_1"}

\* Mutation of Version_fmt: the Debug name of the variant.
Version_fmt_debug(version) == Str(version)

\* impl Display for Version
Version_fmt(version) == CASE version = "Http1_1" -> Str("HTTP/1.1")

\* Mutation of request_Builder_new: the builder starts with a body.
request_Builder_new_seeded(verb, target, version) ==
  [body |-> Str("Hello World"), headers |-> BTreeMap_new, target |-> target,
   verb |-> verb, version |-> version]

request_Builder_new(verb, target, version) ==
  [body |-> <<>>, headers |-> BTreeMap_new, target |-> target, verb |-> verb,
   version |-> version]

request_Builder_body(self, body) == [self EXCEPT !.body = body]

request_Builder_header(self, key, value) ==
  [self EXCEPT !.headers = BTreeMap_insert(self.headers, key, value)]

request_Request_new(verb, target, version, headers, body) ==
  [body |-> body, headers |-> headers, target |-> target, verb |-> verb,
   version |-> version]

request_Builder_create(self) ==
  request_Request_new(self.verb, self.target, self.version, self.headers,
                      self.body)

request_Request_build(verb, target, version) ==
  request_Builder_new(verb, target, version)

\* impl Display for Request<'_>: write!(f, "{} {} {}\n{}\n{}", ..).
request_Request_fmt(self) ==
  request_Verb_fmt(self.verb) \o SP \o self.target \o SP
    \o Version_fmt(self.version) \o LF
    \o headers_fold(<<>>, self.headers) \o LF \o self.body

(***************************************************************************)
(* http1::connection and client: Connection, client::Builder and Client.   *)
(***************************************************************************)
\* Result<T, E>
Ok(v) == [ok |-> TRUE, value |-> v]
Err(e) == [ok |-> FALSE, error |-> e]

\* std::net::TcpStream::connect(remote) against the remote as it is now: a
\* stream to the peer, or the io::Error of the cause that stopped it.
TcpStream_connect(net, remote) ==
  CASE net[remote] = "listening" -> Ok([peer |-> remote])
    [] net[remote] = "closed" -> Err("ConnectionRefused")
    [] net[remote] = "unresolvable" -> Err("Uncategorized")
    [] net[remote] = "silent" -> Err("TimedOut")

\* Mutation of Connection_new: the io::Error's kind is passed on as the code.
Connection_new_kind(net, remote) ==
  LET stream == TcpStream_connect(net, remote)
  IN  IF stream.ok THEN Ok([remote |-> stream.value])
      ELSE Err(IF stream.error = "ConnectionRefused" THEN 0 ELSE 1)

\* Mutation of Connection_new: a failed connect is replaced by a
\* Connection without a stream.
Connection_new_lenient(net, remote) ==
  LET stream == TcpStream_connect(net, remote)
  IN  IF stream.ok THEN Ok([remote |-> stream.value])
      ELSE Ok([remote |-> [peer |-> "none"]])

\* Connection::new: Ok(Self { remote: TcpStream::connect(remote)
\* .map_err(|_| 0)? })
Connection_new(net, remote) ==
  LET stream == TcpStream_connect(net, remote)
      mapped == IF stream.ok THEN stream ELSE Err(0)
  IN  IF mapped.ok THEN Ok([remote |-> mapped.value])
      ELSE Err(mapped.error)

\* Mutation of Client_new: the failure of Connection::new is replaced by a
\* code of the client's own.
Client_new_recode(net, remote) ==
  LET connection == Connection_new(net, remote)
  IN  IF connection.ok THEN Ok([remote |-> connection.value])
      ELSE Err(connection.error + 1)

\* Client::new: Ok(Self { remote: Connection::new(remote)? }); the ? hands
\* the u8 of Connection::new back as it is.
Client_new(net, remote) ==
  LET connection == Connection_new(net, remote)
  IN  IF connection.ok THEN Ok([remote |-> connection.value])
      ELSE Err(connection.error)

ClientBuilder_new(remote) == [remote |-> remote]

ClientBuilder_create(net, self) == Client_new(net, self.remote)

Client_build(remote) == ClientBuilder_new(remote)

(***************************************************************************)
(* The inputs a caller hands to the builders.                              *)
(***************************************************************************)
\* Characters of body texts, as UTF-8: "a" (1 byte) and U+1F600 (4 bytes).
Alphabet == {<<97>>, <<240, 159, 152, 128>>}

RECURSIVE TextsUpTo(_)
TextsUpTo(n) ==
  IF n = 0 THEN {<<>>}
  ELSE TextsUpTo(n - 1) \cup {t \o c : t \in TextsUpTo(n - 1), c \in Alphabet}

\* Every text of at most MaxLen characters, and the 11-byte body of the tests
\* (a Content-Length of two digits).
Texts == TextsUpTo(MaxLen) \cup {Str("Hello World")}

Targets == {Str("/"), Str("/user")}

HeaderKeys == {CONTENT_TYPE, CONTENT_LENGTH, Str("Accept")}

HeaderValues == {Str("text/plain"), Str("11")}

\* The verbs and codes the builders are driven with; the renderings of the
\* whole enumerations are covered by SpecEnum.
BuildVerbs == {"Get", "Post"}

BuildCodes == {"Ok", "NotFound"}

\* Arguments at the edge of what a String can hold: the empty text, and texts
\* with LF, spaces and ": " in them, for every verb and a sample of the codes.
EdgeTexts == {<<>>, Str("a b") \o LF \o Str("c: d")}

EdgeTargets == {<<>>, Str("/a b") \o LF}

EdgeKeys == {<<>>, Str("X: Y") \o LF}

EdgeValues == {LF \o Str(": ")}

EdgeCodes == {"Continue", "Ok", "ImATeapot", "NetworkAuthenticationRequired"}

\* Header keys that differ in letter case only.
CaseKeys == {CONTENT_TYPE, Str("content-type")}

CaseValues == {Str("text/plain"), Str("text/html")}

CaseTexts == {Str("a")}

\* The arguments of the owners of SpecOwned.
OwnedKeys == {CONTENT_TYPE}

OwnedValues == {Str("text/plain")}

OwnedTexts == {Str("a")}

\* Arguments that meet the format's own delimiters: a header key holding the
\* separator ": ", a value that starts like a second header, a value holding
\* a line feed followed by a header line, a target holding a line feed.
WireKeys == {Str("a"), Str("k"), Str("a: b")}
WireValues == {Str("1"), Str("b: 1"), Str("1") \o LF \o Str("k: 1")}
WireTexts == {<<>>, Str("x")}
WireTargets == {Str("/"), Str("/") \o LF}

(***************************************************************************)
(* State.                                                                  *)
(***************************************************************************)
VARIABLES
  phase,    \* "Start" (no value yet), "Building" or "Built"
  kind,     \* "request" or "response" ("none" at Start)
  builder,  \* the Builder value the caller owns, Moved once consumed
  message,  \* the created Request or Response, Absent before create
  last,     \* the last call: receiver type, name, arguments and, for &self
            \* calls, the result
  created,  \* history: the message as create() returned it
  written,  \* history: header key |-> value of the last header write to it
  rendered, \* history (SpecEnum): the enum rendering made before the last one
  inputs,   \* which argument sets the caller draws from: "sample", "edge",
            \* "case" or "owned"
  network,  \* the environment: remote address |-> what a connect to it meets
  client,   \* the client::Builder the caller owns, Moved once consumed
  owners,   \* SpecOwned: owner |-> the builder, message and calls it owns
  sockets,  \* SpecSocket: the sockets the process holds open
  held,     \* SpecSocket: the Connection and the Client the caller owns
  pending   \* SpecSocket: the call that is blocked in TcpStream::connect

\* The variables of the client and of the several-owner specifications.
others == <<inputs, network, client, owners, sockets, held, pending>>

vars == <<phase, kind, builder, message, last, created, written, rendered,
          inputs, network, client, owners, sockets, held, pending>>

\* The argument sets the caller of this behaviour draws from.
ArgTexts ==
  CASE inputs = "sample" -> Texts
    [] inputs = "edge" -> EdgeTexts
    [] inputs = "case" -> CaseTexts
    [] inputs = "owned" -> OwnedTexts
    [] inputs = "wire" -> WireTexts

ArgTargets ==
  CASE inputs = "sample" -> Targets
    [] inputs = "edge" -> EdgeTargets
    [] inputs = "case" -> {Str("/")}
    [] inputs = "owned" -> {Str("/")}
    [] inputs = "wire" -> WireTargets

ArgKeys ==
  CASE inputs = "sample" -> HeaderKeys
    [] inputs = "edge" -> EdgeKeys
    [] inputs = "case" -> CaseKeys
    [] inputs = "owned" -> OwnedKeys
    [] inputs = "wire" -> WireKeys

ArgValues ==
  CASE inputs = "sample" -> HeaderValues
    [] inputs = "edge" -> EdgeValues
    [] inputs = "case" -> CaseValues
    [] inputs = "owned" -> OwnedValues
    [] inputs = "wire" -> WireValues

ArgVerbs ==
  CASE inputs = "sample" -> BuildVerbs
    [] inputs = "edge" -> Verbs
    [] inputs = "case" -> {"Get"}
    [] inputs = "owned" -> {"Get"}
    [] inputs = "wire" -> {"Get"}

ArgCodes ==
  CASE inputs = "sample" -> BuildCodes
    [] inputs = "edge" -> EdgeCodes
    [] inputs = "case" -> {"Ok"}
    [] inputs = "owned" -> {"Ok"}
    [] inputs = "wire" -> {"Ok"}

\* A value that has been moved out of (create(self)), or that does not exist.
Moved == [moved |-> TRUE]
Absent == [absent |-> TRUE]

\* The history of header writes: no key written yet, and one more write.
NoWrites == [k \in {} |-> <<>>]
Write(w, key, value) ==
  [k \in DOMAIN w \cup {key} |-> IF k = key THEN value ELSE w[k]]

\* The remote addresses a caller connects to, and what TcpStream::connect can
\* meet there: a listener that accepts, a port nobody listens on, a name that
\* does not resolve, a peer that never answers.
Addresses == {"localhost:7878", "localhost:8080"}
RemoteStates == {"listening", "closed", "unresolvable", "silent"}

\* Nothing listens anywhere.
NoListeners == [a \in Addresses |-> "closed"]

\* The owners of SpecOwned, none of which holds a value yet.
Owners == {1, 2}
NoOwner == [state |-> "Start", kind |-> "none", builder |-> Absent,
            message |-> Absent, connection |-> Absent, alone |-> Absent,
            base |-> Absent]

\* The remotes of the tests: a listener bound to localhost:7878, none on
\* localhost:8080.
TestListeners == [NoListeners EXCEPT !["localhost:7878"] = "listening"]

\* The caller owns neither a Connection nor a Client.
NothingHeld == [connection |-> Absent, client |-> Absent]

\* The state before any call, for a caller drawing from the argument sets i
\* and remotes in the condition net.
InitWith(i, net) ==
  /\ phase = "Start"
  /\ kind = "none"
  /\ builder = Absent
  /\ message = Absent
  /\ last = [recv |-> "none", op |-> "none"]
  /\ created = Absent
  /\ written = NoWrites
  /\ rendered = [recv |-> "none", op |-> "none"]
  /\ inputs = i
  /\ network = net
  /\ client = Absent
  /\ owners = [o \in Owners |-> NoOwner]
  /\ sockets = {}
  /\ held = NothingHeld
  /\ pending = Absent

Init == InitWith("sample", NoListeners)

(***************************************************************************)
(* http1::request: one action per method.                                       *)
(***************************************************************************)
\* Request::build(verb, target)
RequestBuild ==
  /\ phase = "Start"
  /\ \E verb \in ArgVerbs, target \in ArgTargets :
       /\ builder' = Request_build(verb, target)
       /\ last' = [recv |-> "Request", op |-> "build", verb |-> verb,
                   target |-> target]
  /\ phase' = "Building"
  /\ kind' = "request"
  /\ UNCHANGED <<others, message, created, written, rendered>>

\* Builder::header(self, key, value) -> Self
RequestBuilderHeader ==
  /\ phase = "Building" /\ kind = "request"
  /\ \E key \in ArgKeys, value \in ArgValues :
       /\ builder' = RequestBuilder_header(builder, key, value)
       /\ last' = [recv |-> "Builder", op |-> "header", key |-> key,
                   value |-> value, old |-> BTreeMap_get(builder.headers, key)]
       /\ written' = Write(written, key, value)
  /\ UNCHANGED <<others, phase, kind, message, created, rendered>>

\* Builder::body(self, body) -> Self
RequestBuilderBody ==
  /\ phase = "Building" /\ kind = "request"
  /\ \E text \in ArgTexts :
       /\ builder' = RequestBuilder_body(builder, text)
       /\ last' = [recv |-> "Builder", op |-> "body", text |-> text]
  /\ UNCHANGED <<others, phase, kind, message, created, written, rendered>>

\* Builder::json(self, body) -> Self; it writes Content-Type, then
\* Content-Length, through Builder::header.
RequestBuilderJson ==
  /\ phase = "Building" /\ kind = "request"
  /\ \E text \in ArgTexts :
       /\ builder' = RequestBuilder_json(builder, text)
       /\ last' = [recv |-> "Builder", op |-> "json", text |-> text]
       /\ written' = Write(Write(written, CONTENT_TYPE, APPLICATION_JSON),
                           CONTENT_LENGTH, to_string(String_len(text)))
  /\ UNCHANGED <<others, phase, kind, message, created, rendered>>

\* Builder::url_encoded(self, body) -> Self; it writes Content-Type, then
\* Content-Length, through Builder::header.
RequestBuilderUrlEncoded ==
  /\ phase = "Building" /\ kind = "request"
  /\ \E text \in ArgTexts :
       /\ builder' = RequestBuilder_url_encoded(builder, text)
       /\ last' = [recv |-> "Builder", op |-> "url_encoded", text |-> text]
       /\ written' = Write(Write(written, CONTENT_TYPE, APPLICATION_X_WWW_FORM_URLENCODED),
                           CONTENT_LENGTH, to_string(String_len(text)))
  /\ UNCHANGED <<others, phase, kind, message, created, rendered>>

\* Mutation of RequestBuilderCreate: create(&self), the builder stays usable.
RequestBuilderCreate_borrow ==
  /\ phase = "Building" /\ kind = "request"
  /\ message' = RequestBuilder_create(builder)
  /\ created' = RequestBuilder_create(builder)
  /\ last' = [recv |-> "Builder", op |-> "create", after |-> last.op]
  /\ UNCHANGED <<others, phase, builder, kind, written, rendered>>

\* Builder::create(self) -> Request: the builder is moved into the call.
RequestBuilderCreate ==
  /\ phase = "Building" /\ kind = "request"
  /\ message' = RequestBuilder_create(builder)
  /\ created' = RequestBuilder_create(builder)
  /\ builder' = Moved
  /\ phase' = "Built"
  /\ last' = [recv |-> "Builder", op |-> "create", after |-> last.op]
  /\ UNCHANGED <<others, kind, written, rendered>>

\* Mutation of RequestBody: the body is moved out of the message
\* (core::mem::take) instead of borrowed.
RequestBody_take ==
  /\ phase = "Built" /\ kind = "request"
  /\ last' = [recv |-> "Request", op |-> "body", ret |-> Request_body(message)]
  /\ message' = [message EXCEPT !.body = <<>>]
  /\ UNCHANGED <<others, phase, kind, builder, created, written, rendered>>

\* Request::body(&self)
RequestBody ==
  /\ phase = "Built" /\ kind = "request"
  /\ last' = [recv |-> "Request", op |-> "body", ret |-> Request_body(message)]
  /\ UNCHANGED <<others, phase, kind, builder, message, created, written, rendered>>

\* Request::header(&self, key)
RequestHeader ==
  /\ phase = "Built" /\ kind = "request"
  /\ \E key \in ArgKeys :
       last' = [recv |-> "Request", op |-> "header", key |-> key, ret |-> Request_header(message, key)]
  /\ UNCHANGED <<others, phase, kind, builder, message, created, written, rendered>>

\* Request::headers(&self)
RequestHeaders ==
  /\ phase = "Built" /\ kind = "request"
  /\ last' = [recv |-> "Request", op |-> "headers", ret |-> Request_headers(message)]
  /\ UNCHANGED <<others, phase, kind, builder, message, created, written, rendered>>

\* Request::target(&self)
RequestTarget ==
  /\ phase = "Built" /\ kind = "request"
  /\ last' = [recv |-> "Request", op |-> "target", ret |-> Request_target(message)]
  /\ UNCHANGED <<others, phase, kind, builder, message, created, written, rendered>>

\* Request::verb(&self)
RequestVerb ==
  /\ phase = "Built" /\ kind = "request"
  /\ last' = [recv |-> "Request", op |-> "verb", ret |-> Request_verb(message)]
  /\ UNCHANGED <<others, phase, kind, builder, message, created, written, rendered>>

\* Request::to_string(&self), through impl Display for Request
RequestToString ==
  /\ phase = "Built" /\ kind = "request"
  /\ last' = [recv |-> "Request", op |-> "to_string", ret |-> Request_fmt(message)]
  /\ UNCHANGED <<others, phase, kind, builder, message, created, written, rendered>>

(***************************************************************************)
(* http1::response: one action per method.                                      *)
(***************************************************************************)
\* Response::build(code)
ResponseBuild ==
  /\ phase = "Start"
  /\ \E code \in ArgCodes :
       /\ builder' = Response_build(code)
       /\ last' = [recv |-> "Response", op |-> "build", code |-> code]
  /\ phase' = "Building"
  /\ kind' = "response"
  /\ UNCHANGED <<others, message, created, written, rendered>>

\* Builder::header(self, key, value) -> Self
ResponseBuilderHeader ==
  /\ phase = "Building" /\ kind = "response"
  /\ \E key \in ArgKeys, value \in ArgValues :
       /\ builder' = ResponseBuilder_header(builder, key, value)
       /\ last' = [recv |-> "Builder", op |-> "header", key |-> key,
                   value |-> value, old |-> BTreeMap_get(builder.headers, key)]
       /\ written' = Write(written, key, value)
  /\ UNCHANGED <<others, phase, kind, message, created, rendered>>

\* Builder::body(self, body) -> Self
ResponseBuilderBody ==
  /\ phase = "Building" /\ kind = "response"
  /\ \E text \in ArgTexts :
       /\ builder' = ResponseBuilder_body(builder, text)
       /\ last' = [recv |-> "Builder", op |-> "body", text |-> text]
  /\ UNCHANGED <<others, phase, kind, message, created, written, rendered>>

\* Builder::html(self, body) -> Self; it writes Content-Type, then
\* Content-Length, through Builder::header.
ResponseBuilderHtml ==
  /\ phase = "Building" /\ kind = "response"
  /\ \E text \in ArgTexts :
       /\ builder' = ResponseBuilder_html(builder, text)
       /\ last' = [recv |-> "Builder", op |-> "html", text |-> text]
       /\ written' = Write(Write(written, CONTENT_TYPE, TEXT_HTML),
                           CONTENT_LENGTH, to_string(String_len(text)))
  /\ UNCHANGED <<others, phase, kind, message, created, rendered>>

\* Builder::json(self, body) -> Self; it writes Content-Type, then
\* Content-Length, through Builder::header.
ResponseBuilderJson ==
  /\ phase = "Building" /\ kind = "response"
  /\ \E text \in ArgTexts :
       /\ builder' = ResponseBuilder_json(builder, text)
       /\ last' = [recv |-> "Builder", op |-> "json", text |-> text]
       /\ written' = Write(Write(written, CONTENT_TYPE, APPLICATION_JSON),
                           CONTENT_LENGTH, to_string(String_len(text)))
  /\ UNCHANGED <<others, phase, kind, message, created, rendered>>

\* Builder::url_encoded(self, body) -> Self; it writes Content-Type, then
\* Content-Length, through Builder::header.
ResponseBuilderUrlEncoded ==
  /\ phase = "Building" /\ kind = "response"
  /\ \E text \in ArgTexts :
       /\ builder' = ResponseBuilder_url_encoded(builder, text)
       /\ last' = [recv |-> "Builder", op |-> "url_encoded", text |-> text]
       /\ written' = Write(Write(written, CONTENT_TYPE, APPLICATION_X_WWW_FORM_URLENCODED),
                           CONTENT_LENGTH, to_string(String_len(text)))
  /\ UNCHANGED <<others, phase, kind, message, created, rendered>>

\* Builder::create(self) -> Response: the builder is moved into the call.
ResponseBuilderCreate ==
  /\ phase = "Building" /\ kind = "response"
  /\ message' = ResponseBuilder_create(builder)
  /\ created' = ResponseBuilder_create(builder)
  /\ builder' = Moved
  /\ phase' = "Built"
  /\ last' = [recv |-> "Builder", op |-> "create", after |-> last.op]
  /\ UNCHANGED <<others, kind, written, rendered>>

\* Response::body(&self)
ResponseBody ==
  /\ phase = "Built" /\ kind = "response"
  /\ last' = [recv |-> "Response", op |-> "body", ret |-> Response_body(message)]
  /\ UNCHANGED <<others, phase, kind, builder, message, created, written, rendered>>

\* Response::code(&self)
ResponseCode ==
  /\ phase = "Built" /\ kind = "response"
  /\ last' = [recv |-> "Response", op |-> "code", ret |-> Response_code(message)]
  /\ UNCHANGED <<others, phase, kind, builder, message, created, written, rendered>>

\* Response::header(&self, key)
ResponseHeader ==
  /\ phase = "Built" /\ kind = "response"
  /\ \E key \in ArgKeys :
       last' = [recv |-> "Response", op |-> "header", key |-> key, ret |-> Response_header(message, key)]
  /\ UNCHANGED <<others, phase, kind, builder, message, created, written, rendered>>

\* Response::headers(&self)
ResponseHeaders ==
  /\ phase = "Built" /\ kind = "response"
  /\ last' = [recv |-> "Response", op |-> "headers", ret |-> Response_headers(message)]
  /\ UNCHANGED <<others, phase, kind, builder, message, created, written, rendered>>

\* Response::to_string(&self), through impl Display for Response
ResponseToString ==
  /\ phase = "Built" /\ kind = "response"
  /\ last' = [recv |-> "Response", op |-> "to_string", ret |-> Response_fmt(message)]
  /\ UNCHANGED <<others, phase, kind, builder, message, created, written, rendered>>

(***************************************************************************)
(* request: one action per method of the Builder and Request with a        *)
(* version (kind "vrequest").                                              *)
(***************************************************************************)
\* Request::build(verb, target, version)
VRequestBuild ==
  /\ phase = "Start"
  /\ \E verb \in ArgVerbs, target \in ArgTargets, version \in Versions :
       /\ builder' = request_Request_build(verb, target, version)
       /\ last' = [recv |-> "Request", op |-> "build", verb |-> verb,
                   target |-> target, version |-> version]
  /\ phase' = "Building"
  /\ kind' = "vrequest"
  /\ UNCHANGED <<others, message, created, written, rendered>>

\* Builder::header(self, key, value) -> Self
VRequestBuilderHeader ==
  /\ phase = "Building" /\ kind = "vrequest"
  /\ \E key \in ArgKeys, value \in ArgValues :
       /\ builder' = request_Builder_header(builder, key, value)
       /\ last' = [recv |-> "Builder", op |-> "header", key |-> key,
                   value |-> value, old |-> BTreeMap_get(builder.headers, key)]
       /\ written' = Write(written, key, value)
  /\ UNCHANGED <<others, phase, kind, message, created, rendered>>

\* Builder::body(self, body) -> Self
VRequestBuilderBody ==
  /\ phase = "Building" /\ kind = "vrequest"
  /\ \E text \in ArgTexts :
       /\ builder' = request_Builder_body(builder, text)
       /\ last' = [recv |-> "Builder", op |-> "body", text |-> text]
  /\ UNCHANGED <<others, phase, kind, message, created, written, rendered>>

\* Builder::create(self) -> Request
VRequestBuilderCreate ==
  /\ phase = "Building" /\ kind = "vrequest"
  /\ message' = request_Builder_create(builder)
  /\ created' = request_Builder_create(builder)
  /\ builder' = Moved
  /\ phase' = "Built"
  /\ last' = [recv |-> "Builder", op |-> "create", after |-> last.op]
  /\ UNCHANGED <<others, kind, written, rendered>>

\* Request::to_string(&self), through impl Display for Request<'_>
VRequestToString ==
  /\ phase = "Built" /\ kind = "vrequest"
  /\ last' = [recv |-> "Request", op |-> "to_string",
              ret |-> request_Request_fmt(message)]
  /\ UNCHANGED <<others, phase, kind, builder, message, created, written, rendered>>

Next ==
  \/ RequestBuild
  \/ RequestBuilderHeader
  \/ RequestBuilderBody
  \/ RequestBuilderJson
  \/ RequestBuilderUrlEncoded
  \/ RequestBuilderCreate
  \/ RequestBody
  \/ RequestHeader
  \/ RequestHeaders
  \/ RequestTarget
  \/ RequestVerb
  \/ RequestToString
  \/ ResponseBuild
  \/ ResponseBuilderHeader
  \/ ResponseBuilderBody
  \/ ResponseBuilderHtml
  \/ ResponseBuilderJson
  \/ ResponseBuilderUrlEncoded
  \/ ResponseBuilderCreate
  \/ ResponseBody
  \/ ResponseCode
  \/ ResponseHeader
  \/ ResponseHeaders
  \/ ResponseToString
  \/ VRequestBuild
  \/ VRequestBuilderHeader
  \/ VRequestBuilderBody
  \/ VRequestBuilderCreate
  \/ VRequestToString

Spec == Init /\ [][Next]_vars

\* The same calls with arguments at the edge of what a String can hold.
SpecEdge == InitWith("edge", NoListeners) /\ [][Next]_vars

\* The same calls with header keys that differ in letter case only.
SpecCase == InitWith("case", NoListeners) /\ [][Next]_vars

(***************************************************************************)
(* The client: connection attempts against remotes that come and go.       *)
(***************************************************************************)
\* The environment: a listener is bound or closed, a name starts or stops
\* resolving, a peer stops answering.
RemoteChanges ==
  /\ \E a \in Addresses, s \in RemoteStates :
       /\ network[a] # s
       /\ network' = [network EXCEPT ![a] = s]
  /\ UNCHANGED <<phase, kind, builder, message, last, created, written,
                 rendered, inputs, client, owners, sockets, held, pending>>

\* Connection::new(remote) -> Result<Connection, u8>
ConnectionNew ==
  /\ \E remote \in Addresses :
       last' = [recv |-> "Connection", op |-> "new", remote |-> remote,
                met |-> network[remote],
                ret |-> Connection_new(network, remote)]
  /\ rendered' = last
  /\ UNCHANGED <<phase, kind, builder, message, created, written, inputs,
                 network, client, owners, sockets, held, pending>>

\* Mutation of ClientBuild: build starts the connection attempt itself.
ClientBuild_eager ==
  /\ client \in {Absent, Moved}
  /\ pending = Absent
  /\ \E remote \in Addresses :
       /\ client' = Client_build(remote)
       /\ last' = [recv |-> "Client", op |-> "build", remote |-> remote]
       /\ pending' = [op |-> "create", remote |-> remote,
                      os |-> "connecting", attempts |-> <<remote>>]
  /\ rendered' = last
  /\ UNCHANGED <<phase, kind, builder, message, created, written, inputs,
                 network, owners, sockets, held>>

\* Client::build(remote) -> Builder
ClientBuild ==
  /\ client \in {Absent, Moved}
  /\ pending = Absent
  /\ \E remote \in Addresses :
       /\ client' = Client_build(remote)
       /\ last' = [recv |-> "Client", op |-> "build", remote |-> remote]
  /\ rendered' = last
  /\ UNCHANGED <<phase, kind, builder, message, created, written, inputs,
                 network, owners, sockets, held, pending>>

\* client::Builder::create(self) -> Result<Client, u8>
ClientBuilderCreate ==
  /\ client \notin {Absent, Moved}
  /\ last' = [recv |-> "client::Builder", op |-> "create",
              remote |-> client.remote, met |-> network[client.remote],
              ret |-> ClientBuilder_create(network, client)]
  /\ client' = Moved
  /\ rendered' = last
  /\ UNCHANGED <<phase, kind, builder, message, created, written, inputs,
                 network, owners, sockets, held, pending>>

NextNet ==
  \/ RemoteChanges
  \/ ConnectionNew
  \/ ClientBuild
  \/ ClientBuilderCreate

SpecNet == Init /\ [][NextNet]_vars

(***************************************************************************)
(* The client with its sockets: a call to Connection::new or to create     *)
(* blocks in TcpStream::connect until the operating system completes or     *)
(* fails the attempt; the value returned owns the socket until it is        *)
(* dropped.                                                                 *)
(***************************************************************************)
\* The descriptor the operating system gives the next socket.
FreshSocket(open) ==
  CHOOSE n \in 1..(Cardinality(open) + 1) : \A k \in open : k.fd # n

\* Connection::new(remote): the caller enters TcpStream::connect and blocks.
ConnectionNewCall ==
  /\ pending = Absent
  /\ held.connection = Absent
  /\ \E remote \in Addresses :
       pending' = [op |-> "new", remote |-> remote, os |-> "connecting",
                   attempts |-> <<remote>>]
  /\ UNCHANGED <<phase, kind, builder, message, last, created, written,
                 rendered, inputs, network, client, owners, sockets, held>>

\* client::Builder::create(self): Client::new calls Connection::new, which
\* enters TcpStream::connect and blocks; the builder is consumed.
ClientCreateCall ==
  /\ pending = Absent
  /\ held.client = Absent
  /\ client \notin {Absent, Moved}
  /\ pending' = [op |-> "create", remote |-> client.remote,
                 os |-> "connecting", attempts |-> <<client.remote>>]
  /\ client' = Moved
  /\ UNCHANGED <<phase, kind, builder, message, last, created, written,
                 rendered, inputs, network, owners, sockets, held>>

\* The operating system completes or fails the attempt of the blocked call:
\* on success the process holds one more socket, connected to the peer; the
\* call has its result (map_err and the Ok wrapping block on nothing).
ConnectCompletes ==
  /\ pending # Absent
  /\ pending.os = "connecting"
  /\ LET ret == IF pending.op = "new"
                THEN Connection_new(network, pending.remote)
                ELSE Client_new(network, pending.remote)
         fd == FreshSocket(sockets)
     IN  /\ pending' = [op |-> pending.op, remote |-> pending.remote,
                        os |-> "done", attempts |-> pending.attempts,
                        met |-> network[pending.remote], ret |-> ret,
                        fd |-> IF ret.ok THEN fd ELSE 0]
         /\ sockets' = IF ret.ok
                       THEN sockets \cup {[fd |-> fd, peer |-> pending.remote]}
                       ELSE sockets
  /\ UNCHANGED <<phase, kind, builder, message, last, created, written,
                 rendered, inputs, network, client, owners, held>>

\* Mutation of ConnectionNewReturn: the call gives up on an attempt the
\* operating system has not completed (a timeout) and reports a failure.
ConnectionNewReturn_timeout ==
  /\ pending # Absent
  /\ pending.op = "new"
  /\ last' = [recv |-> "Connection", op |-> "new", remote |-> pending.remote,
              met |-> network[pending.remote], attempts |-> pending.attempts,
              ret |-> IF pending.os = "done" THEN pending.ret ELSE Err(0)]
  /\ held' = IF pending.os = "done" /\ pending.ret.ok
             THEN [held EXCEPT !.connection =
                     [value |-> pending.ret.value, fd |-> pending.fd]]
             ELSE held
  /\ pending' = Absent
  /\ UNCHANGED <<phase, kind, builder, message, created, written, rendered,
                 inputs, network, client, owners, sockets>>

\* Connection::new returns: the Connection that owns the socket, or Err(0).
ConnectionNewReturn ==
  /\ pending # Absent
  /\ pending.op = "new"
  /\ pending.os = "done"
  /\ last' = [recv |-> "Connection", op |-> "new", remote |-> pending.remote,
              met |-> pending.met, attempts |-> pending.attempts,
              ret |-> pending.ret]
  /\ held' = IF pending.ret.ok
             THEN [held EXCEPT !.connection =
                     [value |-> pending.ret.value, fd |-> pending.fd]]
             ELSE held
  /\ pending' = Absent
  /\ UNCHANGED <<phase, kind, builder, message, created, written, rendered,
                 inputs, network, client, owners, sockets>>

\* create returns: the Client that owns the Connection, or Err(0).
ClientCreateReturn ==
  /\ pending # Absent
  /\ pending.op = "create"
  /\ pending.os = "done"
  /\ last' = [recv |-> "client::Builder", op |-> "create",
              remote |-> pending.remote, met |-> pending.met,
              attempts |-> pending.attempts, ret |-> pending.ret]
  /\ held' = IF pending.ret.ok
             THEN [held EXCEPT !.client =
                     [value |-> pending.ret.value, fd |-> pending.fd]]
             ELSE held
  /\ pending' = Absent
  /\ UNCHANGED <<phase, kind, builder, message, created, written, rendered,
                 inputs, network, client, owners, sockets>>

\* Mutation of ConnectionDrop: the value is forgotten (core::mem::forget),
\* its destructor does not run.
ConnectionDrop_forget ==
  /\ pending = Absent
  /\ held.connection # Absent
  /\ held' = [held EXCEPT !.connection = Absent]
  /\ UNCHANGED <<phase, kind, builder, message, last, created, written,
                 rendered, inputs, network, client, owners, sockets, pending>>

\* The Connection goes out of scope: dropping its TcpStream closes the
\* socket.
ConnectionDrop ==
  /\ pending = Absent
  /\ held.connection # Absent
  /\ sockets' = {k \in sockets : k.fd # held.connection.fd}
  /\ held' = [held EXCEPT !.connection = Absent]
  /\ UNCHANGED <<phase, kind, builder, message, last, created, written,
                 rendered, inputs, network, client, owners, pending>>

\* The Client goes out of scope: dropping it drops its Connection, which
\* closes the socket.
ClientDrop ==
  /\ pending = Absent
  /\ held.client # Absent
  /\ sockets' = {k \in sockets : k.fd # held.client.fd}
  /\ held' = [held EXCEPT !.client = Absent]
  /\ UNCHANGED <<phase, kind, builder, message, last, created, written,
                 rendered, inputs, network, client, owners, pending>>

NextSocket ==
  \/ RemoteChanges
  \/ ClientBuild
  \/ ConnectionNewCall
  \/ ClientCreateCall
  \/ ConnectCompletes
  \/ ConnectionNewReturn
  \/ ClientCreateReturn
  \/ ConnectionDrop
  \/ ClientDrop

SpecSocket == Init /\ [][NextSocket]_vars

\* A call whose connect has completed goes on to its return: nothing stands
\* between TcpStream::connect's return and the function's own.
SpecSocketFair ==
  /\ SpecSocket
  /\ WF_vars(ConnectionNewReturn)
  /\ WF_vars(ClientCreateReturn)

(***************************************************************************)
(* One request after another on the wire: the caller builds a Request,     *)
(* renders it, and builds the next; rendered keeps the rendering made       *)
(* before, with the Request it was made of.                                 *)
(***************************************************************************)
\* Request::build(verb, target), first or after the last Request was rendered
WireRequestBuild ==
  /\ \/ phase = "Start"
     \/ phase = "Built" /\ last.op = "to_string"
  /\ \E verb \in ArgVerbs, target \in ArgTargets :
       builder' = Request_build(verb, target)
  /\ rendered' = IF phase = "Built" THEN last ELSE rendered
  /\ last' = [recv |-> "Request", op |-> "build"]
  /\ message' = Absent
  /\ phase' = "Building"
  /\ kind' = "request"
  /\ UNCHANGED <<others, created, written>>

\* Builder::header(self, key, value) -> Self
WireBuilderHeader ==
  /\ phase = "Building"
  /\ \E key \in ArgKeys, value \in ArgValues :
       builder' = RequestBuilder_header(builder, key, value)
  /\ last' = [recv |-> "Builder", op |-> "header"]
  /\ UNCHANGED <<others, phase, kind, message, created, written, rendered>>

\* Builder::body(self, body) -> Self
WireBuilderBody ==
  /\ phase = "Building"
  /\ \E text \in ArgTexts : builder' = RequestBuilder_body(builder, text)
  /\ last' = [recv |-> "Builder", op |-> "body"]
  /\ UNCHANGED <<others, phase, kind, message, created, written, rendered>>

\* Builder::create(self) -> Request
WireBuilderCreate ==
  /\ phase = "Building"
  /\ message' = RequestBuilder_create(builder)
  /\ builder' = Moved
  /\ phase' = "Built"
  /\ last' = [recv |-> "Builder", op |-> "create"]
  /\ UNCHANGED <<others, kind, created, written, rendered>>

\* Request::to_string(&self), through impl Display for Request
WireRequestToString ==
  /\ phase = "Built"
  /\ last' = [recv |-> "Request", op |-> "to_string", of |-> message,
              ret |-> Request_fmt(message)]
  /\ UNCHANGED <<others, phase, kind, builder, message, created, written,
                 rendered>>

NextWire ==
  \/ WireRequestBuild
  \/ WireBuilderHeader
  \/ WireBuilderBody
  \/ WireBuilderCreate
  \/ WireRequestToString

SpecWire == InitWith("wire", NoListeners) /\ [][NextWire]_vars

(***************************************************************************)
(* Several owners: each owns the builder it built or cloned, the message   *)
(* it created and the connection it asked for. The field alone is the       *)
(* builder, then the message, that the owner's calls produce on a value     *)
(* nobody else holds; base is the builder a clone was copied from.          *)
(***************************************************************************)
\* The same Builder method on the builder of either kind.
Builder_header(k, self, key, value) ==
  IF k = "request" THEN RequestBuilder_header(self, key, value)
  ELSE ResponseBuilder_header(self, key, value)

Builder_body(k, self, text) ==
  IF k = "request" THEN RequestBuilder_body(self, text)
  ELSE ResponseBuilder_body(self, text)

Builder_json(k, self, text) ==
  IF k = "request" THEN RequestBuilder_json(self, text)
  ELSE ResponseBuilder_json(self, text)

Builder_create(k, self) ==
  IF k = "request" THEN RequestBuilder_create(self)
  ELSE ResponseBuilder_create(self)

\* What a call of an owner leaves alone: the single caller's variables, the
\* argument sets, the remotes.
OwnedFrame ==
  UNCHANGED <<phase, kind, builder, message, last, created, written,
              rendered, inputs, network, client, sockets, held, pending>>

\* Request::build(verb, target) by the owner o
OwnerRequestBuild(o) ==
  /\ owners[o].state = "Start"
  /\ \E verb \in ArgVerbs, target \in ArgTargets :
       owners' = [owners EXCEPT ![o] =
                    [@ EXCEPT !.state = "Building", !.kind = "request",
                              !.builder = Request_build(verb, target),
                              !.alone = Request_build(verb, target)]]
  /\ OwnedFrame

\* Response::build(code) by the owner o
OwnerResponseBuild(o) ==
  /\ owners[o].state = "Start"
  /\ \E code \in ArgCodes :
       owners' = [owners EXCEPT ![o] =
                    [@ EXCEPT !.state = "Building", !.kind = "response",
                              !.builder = Response_build(code),
                              !.alone = Response_build(code)]]
  /\ OwnedFrame

\* Mutation of OwnerHeader: the header container is one static container
\* that the builders of a kind share.
OwnerHeader_shared(o) ==
  /\ owners[o].state = "Building"
  /\ \E key \in ArgKeys, value \in ArgValues :
       owners' =
         [p \in Owners |->
            IF p = o
            THEN [owners[p] EXCEPT
                    !.builder = Builder_header(owners[p].kind, @, key, value),
                    !.alone = Builder_header(owners[p].kind, @, key, value)]
            ELSE IF owners[p].state = "Building"
                      /\ owners[p].kind = owners[o].kind
            THEN [owners[p] EXCEPT
                    !.builder = Builder_header(owners[p].kind, @, key, value)]
            ELSE owners[p]]
  /\ OwnedFrame

\* Builder::header(self, key, value) -> Self by the owner o
OwnerHeader(o) ==
  /\ owners[o].state = "Building"
  /\ \E key \in ArgKeys, value \in ArgValues :
       owners' = [owners EXCEPT ![o] =
                    [@ EXCEPT
                       !.builder = Builder_header(owners[o].kind, @, key, value),
                       !.alone = Builder_header(owners[o].kind, @, key, value)]]
  /\ OwnedFrame

\* Builder::body(self, body) -> Self by the owner o
OwnerBody(o) ==
  /\ owners[o].state = "Building"
  /\ \E text \in ArgTexts :
       owners' = [owners EXCEPT ![o] =
                    [@ EXCEPT
                       !.builder = Builder_body(owners[o].kind, @, text),
                       !.alone = Builder_body(owners[o].kind, @, text)]]
  /\ OwnedFrame

\* Builder::json(self, body) -> Self by the owner o
OwnerJson(o) ==
  /\ owners[o].state = "Building"
  /\ \E text \in ArgTexts :
       owners' = [owners EXCEPT ![o] =
                    [@ EXCEPT
                       !.builder = Builder_json(owners[o].kind, @, text),
                       !.alone = Builder_json(owners[o].kind, @, text)]]
  /\ OwnedFrame

\* Mutation of OwnerClone: the copy takes the verb or code and the target,
\* with the headers and the body of a new builder.
OwnerClone_partial(o) ==
  /\ owners[o].state = "Start"
  /\ \E p \in Owners \ {o} :
       /\ owners[p].state = "Building"
       /\ owners' = [owners EXCEPT ![o] =
                       [owners[p] EXCEPT
                          !.builder = [@ EXCEPT !.headers = <<>>,
                                                !.body = <<>>],
                          !.connection = Absent,
                          !.alone = owners[p].builder,
                          !.base = owners[p].builder]]
  /\ OwnedFrame

\* Builder::clone(&self), #[derive(Clone)]: the owner o takes a copy, field
\* by field, of the builder another owner holds.
OwnerClone(o) ==
  /\ owners[o].state = "Start"
  /\ \E p \in Owners \ {o} :
       /\ owners[p].state = "Building"
       /\ owners' = [owners EXCEPT ![o] =
                       [owners[p] EXCEPT
                          !.builder = [f \in DOMAIN owners[p].builder |->
                                         owners[p].builder[f]],
                          !.connection = owners[o].connection,
                          !.alone = owners[p].builder,
                          !.base = owners[p].builder]]
  /\ OwnedFrame

\* Builder::create(self) by the owner o
OwnerCreate(o) ==
  /\ owners[o].state = "Building"
  /\ owners' = [owners EXCEPT ![o] =
                  [@ EXCEPT
                     !.state = "Built",
                     !.message = Builder_create(owners[o].kind,
                                                owners[o].builder),
                     !.alone = Builder_create(owners[o].kind, owners[o].alone),
                     !.builder = Moved]]
  /\ OwnedFrame

\* Connection::new(remote) by the owner o
OwnerConnect(o) ==
  /\ owners[o].connection = Absent
  /\ \E remote \in Addresses :
       owners' = [owners EXCEPT ![o] =
                    [@ EXCEPT !.connection =
                                [remote |-> remote,
                                 ret |-> Connection_new(network, remote)]]]
  /\ OwnedFrame

NextOwned ==
  \/ \E o \in Owners : OwnerRequestBuild(o)
  \/ \E o \in Owners : OwnerResponseBuild(o)
  \/ \E o \in Owners : OwnerHeader(o)
  \/ \E o \in Owners : OwnerBody(o)
  \/ \E o \in Owners : OwnerJson(o)
  \/ \E o \in Owners : OwnerClone(o)
  \/ \E o \in Owners : OwnerCreate(o)
  \/ \E o \in Owners : OwnerConnect(o)

SpecOwned == InitWith("owned", TestListeners) /\ [][NextOwned]_vars

(***************************************************************************)
(* The enumerations' renderings on their own: Verb::to_string and          *)
(* Code::to_string of any variant, one call after another.                 *)
(***************************************************************************)
\* Verb::to_string of http1/request.rs
VerbToString ==
  /\ \E verb \in Verbs :
       last' = [recv |-> "http1::request::Verb", op |-> "to_string",
                variant |-> verb, ret |-> Verb_fmt(verb)]
  /\ rendered' = last
  /\ UNCHANGED <<others, phase, kind, builder, message, created, written>>

\* Verb::to_string of request.rs
RequestVerbToString ==
  /\ \E verb \in request_Verbs :
       last' = [recv |-> "request::Verb", op |-> "to_string",
                variant |-> verb, ret |-> request_Verb_fmt(verb)]
  /\ rendered' = last
  /\ UNCHANGED <<others, phase, kind, builder, message, created, written>>

\* Code::to_string of http1/response.rs
CodeToString ==
  /\ \E code \in Codes :
       last' = [recv |-> "http1::response::Code", op |-> "to_string",
                variant |-> code, ret |-> Code_fmt(code)]
  /\ rendered' = last
  /\ UNCHANGED <<others, phase, kind, builder, message, created, written>>

NextEnum ==
  \/ VerbToString
  \/ RequestVerbToString
  \/ CodeToString

SpecEnum == Init /\ [][NextEnum]_vars

(***************************************************************************)
(* Properties.                                                             *)
(***************************************************************************)
\* The texts the properties name, written out on their own.
HdrContentType == Str("Content-Type")
HdrContentLength == Str("Content-Length")
MimeJson == Str("application/json")
MimeForm == Str("application/x-www-form-urlencoded")
MimeHtml == Str("text/html")

\* The byte length of a text, and its number of characters.
ByteLength(text) == Len(text)
CharCount(text) ==
  Cardinality({i \in 1..Len(text) : text[i] \notin 128..191})

\* d is the decimal rendering of n: digits only, no leading zero, value n.
RECURSIVE DecimalValue(_)
DecimalValue(d) ==
  IF d = <<>> THEN 0
  ELSE 10 * DecimalValue(SubSeq(d, 1, Len(d) - 1)) + (d[Len(d)] - 48)

IsDecimalOf(d, n) ==
  /\ Len(d) >= 1
  /\ \A i \in 1..Len(d) : d[i] \in 48..57
  /\ Len(d) > 1 => d[1] # 48
  /\ DecimalValue(d) = n

\* The builder obtained from b by body(text), header("Content-Type", mime),
\* header("Content-Length", d), called by hand.
ByHand(k, b, text, mime, d) ==
  IF k = "request"
  THEN RequestBuilder_header(
         RequestBuilder_header(RequestBuilder_body(b, text), HdrContentType, mime),
         HdrContentLength, d)
  ELSE ResponseBuilder_header(
         ResponseBuilder_header(ResponseBuilder_body(b, text), HdrContentType, mime),
         HdrContentLength, d)

\* The values a container holds under a key.
ValuesOf(h, key) == {h[i][2] : i \in {j \in 1..Len(h) : h[j][1] = key}}

\* A convenience call named op gave, from builder and text, what the three
\* calls by hand give, with the Content-Length the decimal byte length.
ConvenienceIsByHand(op, mime) ==
  (last'.recv = "Builder" /\ last'.op = op) =>
     \E d \in ValuesOf(builder'.headers, HdrContentLength) :
        /\ IsDecimalOf(d, ByteLength(last'.text))
        /\ builder' = ByHand(kind, builder, last'.text, mime, d)

\* C1: json(text), on a Request or a Response builder in any state and for any
\* text, multi-byte text included, returns the builder that body(text),
\* header("Content-Type", "application/json"), header("Content-Length", d)
\* return, d being the decimal rendering of the byte length of text.
C1_JsonIsBodyThenHeaders == [][ConvenienceIsByHand("json", MimeJson)]_vars

\* C1, its case: json was called with a text whose byte length differs from
\* its character count, on a builder that held another header.
C1_JsonOfMultiByteText ==
  /\ last.recv = "Builder"
  /\ last.op = "json"
  /\ CharCount(last.text) # ByteLength(last.text)
  /\ Len(builder.headers) = 3

\* C2: url_encoded(text) returns what body(text), header("Content-Type",
\* "application/x-www-form-urlencoded"), header("Content-Length", byte length)
\* return, and html(text) (Response builder) what body(text),
\* header("Content-Type", "text/html"), header("Content-Length", byte length)
\* return.
C2_UrlEncodedAndHtmlAreBodyThenHeaders ==
  [][/\ ConvenienceIsByHand("url_encoded", MimeForm)
     /\ ConvenienceIsByHand("html", MimeHtml)]_vars

\* C2, its case: html was called with a multi-byte text on a builder that held
\* another header.
C2_HtmlOfMultiByteText ==
  /\ kind = "response"
  /\ last.recv = "Builder"
  /\ last.op = "html"
  /\ CharCount(last.text) # ByteLength(last.text)
  /\ Len(builder.headers) = 3

\* Container h holds exactly one entry per key of w, with the value of w.
HoldsLastWrites(h, w) ==
  /\ \A k \in DOMAIN w :
       /\ Cardinality({i \in 1..Len(h) : h[i][1] = k}) = 1
       /\ ValuesOf(h, k) = {w[k]}
  /\ \A i \in 1..Len(h) : h[i][1] \in DOMAIN w

\* C3: after any sequence of header calls on a builder the container holds
\* exactly one entry per distinct key written, with the value of the last
\* call made with that key; writing a key/value pair it already holds
\* changes nothing.
C3_HeaderLastWriteWins ==
  /\ [](phase = "Building" => HoldsLastWrites(builder.headers, written))
  /\ [][(/\ last'.recv = "Builder"
         /\ last'.op = "header"
         /\ last'.old = Some(last'.value)) => builder' = builder]_vars

\* C3, its case: header was called with a key that held another value, on a
\* container of several entries.
C3_HeaderOverwritten ==
  /\ last.recv = "Builder"
  /\ last.op = "header"
  /\ last.old.some
  /\ last.old.value # last.value
  /\ Len(builder.headers) >= 2
  /\ ValuesOf(builder.headers, last.key) = {last.value}

\* Lexicographic order of two texts, a proper prefix first.
LexLess(a, b) ==
  \E i \in 1..Len(b) :
     /\ \A j \in 1..(i - 1) : j <= Len(a) /\ a[j] = b[j]
     /\ i > Len(a) \/ a[i] < b[i]

\* The entries of the written pairs w in ascending order of their keys.
Canon(w) ==
  [i \in 1..Cardinality(DOMAIN w) |->
     LET key == CHOOSE k \in DOMAIN w :
                  Cardinality({x \in DOMAIN w : LexLess(x, k)}) = i - 1
     IN  <<key, w[key]>>]

\* The verb tokens of the wire format.
VerbToken(verb) ==
  CASE verb = "Connect" -> Str("CONNECT")
    [] verb = "Delete" -> Str("DELETE")
    [] verb = "Get" -> Str("GET")
    [] verb = "Head" -> Str("HEAD")
    [] verb = "Options" -> Str("OPTIONS")
    [] verb = "Patch" -> Str("PATCH")
    [] verb = "Post" -> Str("POST")
    [] verb = "Put" -> Str("PUT")
    [] verb = "Trace" -> Str("TRACE")

\* The header lines of the wire format: key, ": ", value, LF for each entry.
RECURSIVE WireLines(_)
WireLines(h) ==
  IF h = <<>> THEN <<>>
  ELSE h[1][1] \o <<58, 32>> \o h[1][2] \o <<10>> \o WireLines(Tail(h))

\* The wire text of a request with header entries h.
RequestWire(verb, target, h, body) ==
  VerbToken(verb) \o <<32>> \o target \o <<32>> \o Str("HTTP/1.1") \o <<10>>
    \o WireLines(h) \o <<10>> \o body

\* The wire text of a response with header entries h, d being the digits of
\* the status line.
ResponseWire(d, reason, h, body) ==
  Str("HTTP/1.1") \o <<32>> \o d \o <<32>> \o reason \o <<10>>
    \o WireLines(h) \o <<10>> \o body

\* How often byte b occurs in text t.
Count(t, b) == Cardinality({i \in 1..Len(t) : t[i] = b})

RECURSIVE CountIn(_, _)
CountIn(h, b) ==
  IF h = <<>> THEN 0
  ELSE Count(h[1][1], b) + Count(h[1][2], b) + CountIn(Tail(h), b)

\* to_string was called on the created message of kind k.
Rendered(k) ==
  phase = "Built" /\ kind = k /\ last.op = "to_string"

\* C4: the wire rendering of a built http1 Request is the verb token, a space,
\* the target, a space, "HTTP/1.1", LF, then key, ": ", value, LF for each
\* header in container order, then one LF, then the body and nothing more;
\* with no headers it is "<VERB> <target> HTTP/1.1" LF LF body; the lines end
\* in LF, a CR is never added.
C4_RequestWireText ==
  Rendered("request") =>
    /\ last.ret = RequestWire(message.verb, message.target, message.headers,
                              message.body)
    /\ message.headers = <<>> =>
         last.ret = VerbToken(message.verb) \o <<32>> \o message.target
                      \o Str(" HTTP/1.1") \o <<10, 10>> \o message.body
    /\ Count(last.ret, 13) = Count(message.target, 13)
                               + CountIn(message.headers, 13)
                               + Count(message.body, 13)

\* C4, its case: a request with three headers and a multi-byte body was
\* rendered.
C4_RequestRendered ==
  /\ Rendered("request")
  /\ Len(message.headers) = 3
  /\ CharCount(message.body) # ByteLength(message.body)

\* C5: the wire rendering of a built http1 Response is "HTTP/1.1", a space,
\* the code's numeric value, a space, the code's reason phrase, LF, then key,
\* ": ", value, LF for each header in container order, then one LF, then the
\* body and nothing more.
C5_ResponseWireText ==
  Rendered("response") =>
    \E n \in 1..5 :
       /\ IsDecimalOf(SubSeq(last.ret, 10, 9 + n), Code_as_u16(message.code))
       /\ last.ret = ResponseWire(SubSeq(last.ret, 10, 9 + n),
                                  Str(Code_readable(message.code)),
                                  message.headers, message.body)

\* C5, its case: a response with headers and a body was rendered.
C5_ResponseRendered ==
  /\ Rendered("response")
  /\ Len(message.headers) >= 2
  /\ message.body # <<>>
  /\ message.code = "NotFound"

\* C6: headers are held and rendered in ascending lexicographic order of
\* their keys, whatever the order of insertion: the container of a builder
\* and of the message created from it is the sorted list of the pairs last
\* written, so builders ending with the same pairs create equal messages,
\* and the rendering lists the header lines in that order.
C6_HeadersInKeyOrder ==
  /\ phase = "Building" => builder.headers = Canon(written)
  /\ phase = "Built" => message.headers = Canon(written)
  /\ Rendered("request") =>
       last.ret = RequestWire(message.verb, message.target, Canon(written),
                              message.body)
  /\ Rendered("response") =>
       last.ret = ResponseWire(SubSeq(last.ret, 10, 12),
                               Str(Code_readable(message.code)),
                               Canon(written), message.body)

\* C6, its case: the request of the tests, Content-Type written before
\* Content-Length, rendered with Content-Length first.
C6_ContentLengthBeforeContentType ==
  /\ Rendered("request")
  /\ last.ret = Str("POST / HTTP/1.1") \o <<10>>
                  \o Str("Content-Length: 11") \o <<10>>
                  \o Str("Content-Type: text/plain") \o <<10, 10>>
                  \o Str("Hello World")

\* The methods that take a Builder by value and return a Builder.
ConfigurationOps == {"header", "body", "json", "url_encoded", "html"}

\* C7: every builder follows the state machine {Building, Built}: build puts a
\* fresh value in Building, every configuration call takes a Building value
\* and returns a Building value, create is the only transition from Building
\* to Built and moves the builder, nothing leads from Built back to Building,
\* and a builder that has been moved is not used again.
C7_BuilderStateMachine ==
  [][/\ phase = "Start" =>
          /\ phase' = "Building"
          /\ last'.recv \in {"Request", "Response"} /\ last'.op = "build"
          /\ builder' # Moved
          /\ builder'.headers = <<>> /\ builder'.body = <<>>
          /\ message' = Absent
     /\ phase = "Building" =>
          /\ last'.recv = "Builder"
          /\ \/ /\ last'.op \in ConfigurationOps
                /\ phase' = "Building"
                /\ builder' # Moved
                /\ message' = Absent
             \/ /\ last'.op = "create"
                /\ phase' = "Built"
                /\ builder' = Moved
                /\ message' # Absent
     /\ phase = "Built" =>
          /\ phase' = "Built"
          /\ last'.recv \in {"Request", "Response"} /\ last'.op # "build"
     /\ builder = Moved => builder' = Moved
     /\ phase' = "Built" <=> builder' = Moved]_vars

\* C7, its case: a configured builder was consumed by create.
C7_ConfiguredBuilderCreated ==
  /\ phase = "Built"
  /\ last.recv = "Builder"
  /\ last.op = "create"
  /\ builder = Moved
  /\ message.body # <<>>
  /\ Len(message.headers) >= 1

\* C8: no operation on a created Request or Response changes it: after any
\* sequence of accessor calls and renderings its verb or code, target,
\* headers and body are what they were when create returned.
C8_CreatedMessageUnchanged ==
  phase = "Built" =>
    /\ message = created
    /\ message.body = created.body
    /\ message.headers = created.headers
    /\ kind = "request" =>
         message.verb = created.verb /\ message.target = created.target
    /\ kind = "response" => message.code = created.code

\* C8, its case: an accessor returned a header of a created message that has
\* a body.
C8_AccessorCalled ==
  /\ phase = "Built"
  /\ last.recv \in {"Request", "Response"}
  /\ last.op = "header"
  /\ last.ret.some
  /\ message.body # <<>>

\* The reason phrase the IANA HTTP status code registry gives a status code
\* (418, which the registry leaves unused, with the phrase of RFC 2324 that
\* the specification names).
IanaReasonPhrase(n) ==
  CASE n = 100 -> "Continue"
    [] n = 101 -> "Switching Protocols"
    [] n = 102 -> "Processing"
    [] n = 103 -> "Early Hints"
    [] n = 200 -> "OK"
    [] n = 201 -> "Created"
    [] n = 202 -> "Accepted"
    [] n = 203 -> "Non-Authoritative Information"
    [] n = 204 -> "No Content"
    [] n = 205 -> "Reset Content"
    [] n = 206 -> "Partial Content"
    [] n = 207 -> "Multi-Status"
    [] n = 208 -> "Already Reported"
    [] n = 226 -> "IM Used"
    [] n = 300 -> "Multiple Choices"
    [] n = 301 -> "Moved Permanently"
    [] n = 302 -> "Found"
    [] n = 303 -> "See Other"
    [] n = 304 -> "Not Modified"
    [] n = 305 -> "Use Proxy"
    [] n = 307 -> "Temporary Redirect"
    [] n = 308 -> "Permanent Redirect"
    [] n = 400 -> "Bad Request"
    [] n = 401 -> "Unauthorized"
    [] n = 402 -> "Payment Required"
    [] n = 403 -> "Forbidden"
    [] n = 404 -> "Not Found"
    [] n = 405 -> "Method Not Allowed"
    [] n = 406 -> "Not Acceptable"
    [] n = 407 -> "Proxy Authentication Required"
    [] n = 408 -> "Request Timeout"
    [] n = 409 -> "Conflict"
    [] n = 410 -> "Gone"
    [] n = 411 -> "Length Required"
    [] n = 412 -> "Precondition Failed"
    [] n = 413 -> "Content Too Large"
    [] n = 414 -> "URI Too Long"
    [] n = 415 -> "Unsupported Media Type"
    [] n = 416 -> "Range Not Satisfiable"
    [] n = 417 -> "Expectation Failed"
    [] n = 418 -> "I'm a teapot"
    [] n = 421 -> "Misdirected Request"
    [] n = 422 -> "Unprocessable Content"
    [] n = 423 -> "Locked"
    [] n = 424 -> "Failed Dependency"
    [] n = 425 -> "Too Early"
    [] n = 426 -> "Upgrade Required"
    [] n = 428 -> "Precondition Required"
    [] n = 429 -> "Too Many Requests"
    [] n = 431 -> "Request Header Fields Too Large"
    [] n = 451 -> "Unavailable For Legal Reasons"
    [] n = 500 -> "Internal Server Error"
    [] n = 501 -> "Not Implemented"
    [] n = 502 -> "Bad Gateway"
    [] n = 503 -> "Service Unavailable"
    [] n = 504 -> "Gateway Timeout"
    [] n = 505 -> "HTTP Version Not Supported"
    [] n = 506 -> "Variant Also Negotiates"
    [] n = 507 -> "Insufficient Storage"
    [] n = 508 -> "Loop Detected"
    [] n = 510 -> "Not Extended"
    [] n = 511 -> "Network Authentication Required"
    [] OTHER -> ""

\* Code::to_string was the last call.
CodeRendered ==
  last.recv = "http1::response::Code" /\ last.op = "to_string"

\* C9: every Code variant renders as its numeric value, one space and the
\* reason phrase the IANA registry gives that value, verbatim (capitals,
\* punctuation and hyphens included).
C9_CodeRendersIanaReasonPhrase ==
  CodeRendered =>
    \E n \in 1..5 :
       /\ IsDecimalOf(SubSeq(last.ret, 1, n), Code_as_u16(last.variant))
       /\ last.ret = SubSeq(last.ret, 1, n) \o <<32>>
                       \o Str(IanaReasonPhrase(Code_as_u16(last.variant)))

\* A rendering r of either Verb enumeration.
IsVerbRendering(r) ==
  r.recv \in {"http1::request::Verb", "request::Verb"} /\ r.op = "to_string"

\* C10: each of the nine verbs renders as its upper-case method token; the
\* renderings of two different verbs differ, and the Verb enumerations of the
\* two request modules render a verb identically.
C10_VerbRendersUpperCaseToken ==
  /\ IsVerbRendering(last) =>
       /\ last.variant \in {"Connect", "Delete", "Get", "Head", "Options",
                            "Patch", "Post", "Put", "Trace"}
       /\ last.ret = VerbToken(last.variant)
  /\ (IsVerbRendering(last) /\ IsVerbRendering(rendered)) =>
       (last.ret = rendered.ret <=> last.variant = rendered.variant)
  /\ Cardinality(Verbs) = 9 /\ Cardinality(request_Verbs) = 9

\* C10, its case: Connect was rendered by both Verb enumerations, one after
\* the other.
C10_ConnectRenderedByBoth ==
  /\ IsVerbRendering(last) /\ IsVerbRendering(rendered)
  /\ last.recv # rendered.recv
  /\ last.variant = "Connect" /\ rendered.variant = "Connect"
  /\ last.ret = Str("CONNECT")

\* The calls that can fail, as the record of a call names them.
IsConnectionNew(r) == r.recv = "Connection" /\ r.op = "new"
IsClientCreate(r) == r.recv = "client::Builder" /\ r.op = "create"
IsFallible(r) == IsConnectionNew(r) \/ IsClientCreate(r)

\* The one failure value a caller can receive.
ConnectFailure == [ok |-> FALSE, error |-> 0]

\* C11: Connection::new(address) returns a success value owning a connection
\* to the address when a listener is accepting there, and the failure value
\* when nothing listens there; it never returns success without an established
\* connection.
C11_ConnectionNewOutcome ==
  IsConnectionNew(last) =>
    /\ last.met = "listening" =>
         last.ret = [ok |-> TRUE, value |-> [remote |-> [peer |-> last.remote]]]
    /\ last.met = "closed" => last.ret = ConnectFailure
    /\ last.ret.ok =>
         /\ last.met = "listening"
         /\ last.ret.value.remote.peer = last.remote

\* C11, its case: Connection::new succeeded at an address where the call
\* before it had failed, the listener having been bound in between.
C11_ConnectedAfterRefusal ==
  /\ IsConnectionNew(last) /\ IsConnectionNew(rendered)
  /\ last.remote = rendered.remote
  /\ last.ret.ok
  /\ ~rendered.ret.ok

\* C12: Client::build(address).create() succeeds exactly when
\* Connection::new(address) succeeds, on failure it returns the failure
\* indicator of Connection::new unchanged, and a failed create leaves no
\* Client value (and no builder) behind.
C12_ClientCreateIsConnectionNew ==
  IsClientCreate(last) =>
    /\ last.ret.ok <=> last.met = "listening"
    /\ last.ret.ok =>
         last.ret.value = [remote |-> [remote |-> [peer |-> last.remote]]]
    /\ ~last.ret.ok => DOMAIN last.ret = {"ok", "error"}
    /\ client = Moved
    /\ (IsConnectionNew(rendered) /\ rendered.remote = last.remote
          /\ rendered.met = last.met) =>
         /\ last.ret.ok <=> rendered.ret.ok
         /\ ~last.ret.ok => last.ret.error = rendered.ret.error

\* C12, its case: create failed right after Connection::new had failed at
\* the same address in the same condition.
C12_CreateFailedAsConnectionDid ==
  /\ IsClientCreate(last) /\ IsConnectionNew(rendered)
  /\ rendered.remote = last.remote /\ rendered.met = last.met
  /\ ~last.ret.ok

\* C13: every fallible operation (Connection::new, Client create) has exactly
\* two outcomes, success or the one failure value, and every failure,
\* whatever stopped the connect (no resolution, refusal, timeout), is that
\* same value: two failures with different causes are equal to the caller.
C13_OneFailureValue ==
  /\ IsFallible(last) =>
       \/ last.ret.ok /\ DOMAIN last.ret = {"ok", "value"}
       \/ last.ret = ConnectFailure
  /\ (IsFallible(last) /\ IsFallible(rendered)
        /\ ~last.ret.ok /\ ~rendered.ret.ok) => last.ret = rendered.ret

\* C13, its case: a refused connect and a failed resolution, one call after
\* the other.
C13_TwoCausesOneValue ==
  /\ IsFallible(last) /\ IsFallible(rendered)
  /\ ~last.ret.ok /\ ~rendered.ret.ok
  /\ last.met = "unresolvable" /\ rendered.met = "closed"

\* The values the calls return: a String, a header container, a Request
\* builder or Request, a Response builder or Response, an Option<&str>.
IsText(t) == DOMAIN t = 1..Len(t) /\ \A i \in 1..Len(t) : t[i] \in 0..255

IsHeaders(h) ==
  /\ DOMAIN h = 1..Len(h)
  /\ \A i \in 1..Len(h) : Len(h[i]) = 2 /\ IsText(h[i][1]) /\ IsText(h[i][2])

IsRequestValue(r) ==
  /\ DOMAIN r = {"body", "headers", "target", "verb"}
  /\ IsText(r.body) /\ IsHeaders(r.headers) /\ IsText(r.target)
  /\ r.verb \in Verbs

IsResponseValue(r) ==
  /\ DOMAIN r = {"body", "code", "headers"}
  /\ IsText(r.body) /\ IsHeaders(r.headers)
  /\ r.code \in Codes

IsOption(o) ==
  \/ o = [some |-> FALSE]
  \/ DOMAIN o = {"some", "value"} /\ o.some /\ IsText(o.value)

\* C14: builder calls and wire rendering are total: for every verb or code,
\* target, header key, header value and body text (the empty text, texts with
\* LF, spaces or ": " among them), build, header, body, json, url_encoded,
\* html, create, the accessors and the rendering each return a value of their
\* type and never an error outcome.
C14_BuilderCallsAreTotal ==
  /\ \A verb \in ArgVerbs, target \in ArgTargets :
       IsRequestValue(Request_build(verb, target))
  /\ \A code \in Codes :
       IsResponseValue(Response_build(code)) /\ IsText(Code_fmt(code))
  /\ (phase = "Building" /\ kind = "request") =>
       /\ IsRequestValue(builder)
       /\ \A key \in ArgKeys, value \in ArgValues :
            IsRequestValue(RequestBuilder_header(builder, key, value))
       /\ \A text \in ArgTexts :
            /\ IsRequestValue(RequestBuilder_body(builder, text))
            /\ IsRequestValue(RequestBuilder_json(builder, text))
            /\ IsRequestValue(RequestBuilder_url_encoded(builder, text))
       /\ IsRequestValue(RequestBuilder_create(builder))
  /\ (phase = "Building" /\ kind = "response") =>
       /\ IsResponseValue(builder)
       /\ \A key \in ArgKeys, value \in ArgValues :
            IsResponseValue(ResponseBuilder_header(builder, key, value))
       /\ \A text \in ArgTexts :
            /\ IsResponseValue(ResponseBuilder_body(builder, text))
            /\ IsResponseValue(ResponseBuilder_html(builder, text))
            /\ IsResponseValue(ResponseBuilder_json(builder, text))
            /\ IsResponseValue(ResponseBuilder_url_encoded(builder, text))
       /\ IsResponseValue(ResponseBuilder_create(builder))
  /\ (phase = "Built" /\ kind = "request") =>
       /\ IsRequestValue(message)
       /\ IsText(Request_body(message)) /\ IsText(Request_target(message))
       /\ IsHeaders(Request_headers(message))
       /\ Request_verb(message) \in Verbs
       /\ \A key \in ArgKeys : IsOption(Request_header(message, key))
       /\ IsText(Request_fmt(message)) /\ Request_fmt(message) # <<>>
  /\ (phase = "Built" /\ kind = "response") =>
       /\ IsResponseValue(message)
       /\ IsText(Response_body(message))
       /\ IsHeaders(Response_headers(message))
       /\ Response_code(message) \in Codes
       /\ \A key \in ArgKeys : IsOption(Response_header(message, key))
       /\ IsText(Response_fmt(message)) /\ Response_fmt(message) # <<>>

\* C14, its case: a request with an empty target, an empty header key and a
\* body holding LF and ": " was built, created and rendered.
C14_EdgeRequestRendered ==
  /\ inputs = "edge"
  /\ Rendered("request")
  /\ message.target = <<>>
  /\ Len(message.headers) >= 2
  /\ message.headers[1][1] = <<>>
  /\ Count(message.body, 10) = 1
  /\ IsText(last.ret)

\* The number of entries the container h holds under the key k.
EntriesUnder(h, k) == Cardinality({i \in 1..Len(h) : h[i][1] = k})

\* C15: on a created message header(key) returns the stored value when that
\* exact key text was written and the absent result otherwise: keys are
\* compared by exact text equality with no case normalisation, a header
\* written as "Content-Type" is absent under "content-type", and writing both
\* makes two separate entries.
C15_HeaderKeysAreCaseSensitive ==
  phase = "Built" =>
    /\ (last.recv \in {"Request", "Response"} /\ last.op = "header") =>
         /\ last.key \in DOMAIN written =>
              last.ret = [some |-> TRUE, value |-> written[last.key]]
         /\ last.key \notin DOMAIN written => last.ret = [some |-> FALSE]
    /\ \A k \in CaseKeys :
         EntriesUnder(message.headers, k) = IF k \in DOMAIN written THEN 1 ELSE 0

\* C15, its case: "Content-Type" was written, "content-type" was not, and
\* header("content-type") was called on the created message.
C15_LowerCaseKeyAbsent ==
  /\ inputs = "case"
  /\ phase = "Built"
  /\ last.recv \in {"Request", "Response"} /\ last.op = "header"
  /\ last.key = Str("content-type")
  /\ Str("Content-Type") \in DOMAIN written
  /\ Str("content-type") \notin DOMAIN written
  /\ ~last.ret.some

\* C16: a builder returned by build has an empty header container and an
\* empty body and carries exactly the verb and target (Request), the verb,
\* target and version (Request with a version) or the code (Response) passed
\* in; created at once it yields a message with no headers, an empty body
\* and those same fields.
C16_BuildDefaults ==
  /\ (phase = "Building" /\ last.op = "build") =>
       /\ builder.headers = <<>>
       /\ builder.body = <<>>
       /\ kind = "request" =>
            builder = [body |-> <<>>, headers |-> <<>>,
                       target |-> last.target, verb |-> last.verb]
       /\ kind = "vrequest" =>
            builder = [body |-> <<>>, headers |-> <<>>,
                       target |-> last.target, verb |-> last.verb,
                       version |-> last.version]
       /\ kind = "response" =>
            builder = [body |-> <<>>, code |-> last.code, headers |-> <<>>]
  /\ (phase = "Built" /\ last.op = "create" /\ last.after = "build") =>
       /\ message.headers = <<>>
       /\ message.body = <<>>
       /\ DOMAIN message =
            CASE kind = "request" -> {"body", "headers", "target", "verb"}
              [] kind = "vrequest" ->
                   {"body", "headers", "target", "verb", "version"}
              [] kind = "response" -> {"body", "code", "headers"}

\* C16, its case: a Request with a version was created straight after build.
C16_CreatedStraightAfterBuild ==
  /\ phase = "Built"
  /\ kind = "vrequest"
  /\ last.op = "create"
  /\ last.after = "build"
  /\ message.version = "Http1_1"
  /\ message.target = Str("/user")

\* The fields of a builder or message other than its body.
FrameOfBody(b) == [f \in DOMAIN b \ {"body"} |-> b[f]]

\* C17: body(text) replaces the builder's body with text, whatever the body
\* was before (after several body calls the body is the argument of the last
\* one), and leaves the verb or code, the target and every header unchanged.
C17_BodyReplacesBodyOnly ==
  [][(last'.recv = "Builder" /\ last'.op = "body") =>
       /\ builder'.body = last'.text
       /\ builder'.headers = builder.headers
       /\ FrameOfBody(builder') = FrameOfBody(builder)
       /\ DOMAIN builder' = DOMAIN builder
       /\ written' = written]_vars

\* C17, its case: body("a") was called on a builder that held two headers,
\* Content-Length: 11 among them.
C17_BodyCalledTwice ==
  /\ phase = "Building"
  /\ last.recv = "Builder" /\ last.op = "body"
  /\ last.text = Str("a")
  /\ builder.body = Str("a")
  /\ Len(builder.headers) = 2
  /\ Str("Content-Length") \in DOMAIN written
  /\ written[Str("Content-Length")] = Str("11")

\* The rendering r of a Code, and the text before its first space.
IsCodeRendering(r) == r.recv = "http1::response::Code" /\ r.op = "to_string"
NumericPart(t) ==
  SubSeq(t, 1, (CHOOSE i \in 1..Len(t) :
                  t[i] = 32 /\ \A j \in 1..(i - 1) : t[j] # 32) - 1)

\* C19: every Code variant carries a numeric value from 100 to 511, no two
\* variants carry the same value, and the numeric part of a variant's
\* rendering is exactly that value, so distinct codes render to distinct
\* status lines.
C19_CodeValuesDistinctInRange ==
  /\ \A code \in Codes : Code_as_u16(code) \in 100..511
  /\ \A c, d \in Codes : c # d => Code_as_u16(c) # Code_as_u16(d)
  /\ IsCodeRendering(last) =>
       /\ IsDecimalOf(NumericPart(last.ret), Code_as_u16(last.variant))
       /\ DecimalValue(NumericPart(last.ret)) \in 100..511
  /\ (IsCodeRendering(last) /\ IsCodeRendering(rendered)
        /\ last.variant # rendered.variant) =>
       /\ last.ret # rendered.ret
       /\ NumericPart(last.ret) # NumericPart(rendered.ret)

\* C19, its case: the codes at the two ends of the range, 100 and 511, were
\* rendered one after the other.
C19_ContinueThenNetworkAuthenticationRequired ==
  /\ IsCodeRendering(last) /\ IsCodeRendering(rendered)
  /\ rendered.variant = "Continue"
  /\ last.variant = "NetworkAuthenticationRequired"
  /\ NumericPart(rendered.ret) = Str("100")
  /\ NumericPart(last.ret) = Str("511")

\* The owner q holds a copy made by clone.
IsCopy(q) == owners[q].base # Absent

\* Every entry of the container g is an entry of the container h.
HoldsEntriesOf(h, g) ==
  \A i \in 1..Len(g) : \E j \in 1..Len(h) : h[j] = g[i]

\* C18: a builder can be duplicated: the clone holds exactly the fields of
\* the builder it was taken from, configuration calls and create on one copy
\* leave the other copy's fields unchanged, and the message created from a
\* copy is the configuration made before the clone followed by the calls
\* made on that copy afterwards.
C18_CloneIsIndependentCopy ==
  /\ [][\A p, q \in Owners :
          /\ p # q => (owners'[p] = owners[p] \/ owners'[q] = owners[q])
          /\ (owners[q].base = Absent /\ owners'[q].base # Absent /\ p # q) =>
               /\ owners'[p] = owners[p]
               /\ owners[p].state = "Building"
               /\ owners'[q].state = "Building"
               /\ owners'[q].kind = owners[p].kind
               /\ owners'[q].builder = owners[p].builder
               /\ owners'[q].base = owners[p].builder]_vars
  /\ [](\A q \in Owners :
          IsCopy(q) =>
            /\ owners[q].state = "Building" =>
                 owners[q].builder = owners[q].alone
            /\ owners[q].state = "Built" =>
                 owners[q].message = owners[q].alone)

\* C18, its case: a builder holding a header was cloned, the original was
\* given a body and the copy was not, and both were created: two messages
\* that share the header and differ in the body.
C18_TwoMessagesFromOnePrefix ==
  /\ IsCopy(2)
  /\ owners[1].state = "Built" /\ owners[2].state = "Built"
  /\ owners[2].base.headers = << <<Str("Content-Type"), Str("text/plain")>> >>
  /\ owners[1].message.headers = owners[2].base.headers
  /\ owners[2].message.headers = owners[2].base.headers
  /\ owners[1].message.body = Str("a")
  /\ owners[2].message.body = <<>>

\* C20: no state is shared between callers: when two callers each drive their
\* own builder and their own connection attempt, in any interleaving of
\* their calls, the builder each holds and the message each creates are
\* those the same calls produce when run alone, and the outcome of each
\* connection attempt is the outcome at the remote it named.
C20_CallersShareNoState ==
  \A o \in Owners :
    /\ owners[o].state = "Start" =>
         owners[o].builder = Absent /\ owners[o].message = Absent
    /\ owners[o].state = "Building" =>
         owners[o].builder = owners[o].alone /\ owners[o].message = Absent
    /\ owners[o].state = "Built" =>
         owners[o].message = owners[o].alone /\ owners[o].builder = Moved
    /\ owners[o].connection # Absent =>
         owners[o].connection.ret =
           IF network[owners[o].connection.remote] = "listening"
           THEN [ok |-> TRUE,
                 value |-> [remote |-> [peer |-> owners[o].connection.remote]]]
           ELSE [ok |-> FALSE, error |-> 0]

\* C20, its case: two callers built a Request each, one wrote a header and
\* the other a body, both created, and their connection attempts, one to the
\* listener and one to the closed port, ended differently.
C20_TwoCallersInterleaved ==
  /\ ~IsCopy(1) /\ ~IsCopy(2)
  /\ owners[1].state = "Built" /\ owners[2].state = "Built"
  /\ owners[1].kind = "request" /\ owners[2].kind = "request"
  /\ Len(owners[1].message.headers) = 1 /\ owners[1].message.body = <<>>
  /\ owners[2].message.headers = <<>> /\ owners[2].message.body = Str("a")
  /\ owners[1].connection # Absent /\ owners[2].connection # Absent
  /\ owners[1].connection.ret.ok /\ ~owners[2].connection.ret.ok

\* The sockets the values in existence own: the Connection and the Client the
\* caller holds, and the value a completed call is about to return.
OwnedSockets ==
  (IF held.connection = Absent THEN {}
   ELSE {[fd |-> held.connection.fd,
          peer |-> held.connection.value.remote.peer]})
  \cup
  (IF held.client = Absent THEN {}
   ELSE {[fd |-> held.client.fd,
          peer |-> held.client.value.remote.remote.peer]})
  \cup
  (IF pending # Absent /\ pending.os = "done" /\ pending.ret.ok
   THEN {[fd |-> pending.fd, peer |-> pending.remote]}
   ELSE {})

\* The number of values in existence that own a socket.
OwningValues ==
  (IF held.connection = Absent THEN 0 ELSE 1)
  + (IF held.client = Absent THEN 0 ELSE 1)
  + (IF pending # Absent /\ pending.os = "done" /\ pending.ret.ok
     THEN 1 ELSE 0)

\* C21: a Connection, and the Client that owns one, holds exactly one open
\* socket to the peer it was created for from the moment its creation
\* succeeded until the value is destroyed; the open sockets are exactly those
\* of the values in existence, so destroying a value releases its socket and
\* a failed creation leaves none open.
C21_ValueOwnsOneSocket ==
  /\ sockets = OwnedSockets
  /\ Cardinality(sockets) = OwningValues
  /\ \A a, b \in sockets : a.fd = b.fd => a = b
  /\ (pending # Absent /\ pending.os = "done" /\ ~pending.ret.ok) =>
       pending.fd = 0

\* C21, its case: a Connection was created and has been destroyed since, a
\* Client created before it is still held, and the one socket left open is
\* the Client's.
C21_ConnectionDroppedClientHeld ==
  /\ IsConnectionNew(last) /\ last.ret.ok
  /\ held.connection = Absent
  /\ held.client # Absent
  /\ pending = Absent
  /\ sockets = {[fd |-> held.client.fd,
                 peer |-> held.client.value.remote.remote.peer]}

\* The builders Client::build can return.
ClientBuilders == {[remote |-> a] : a \in Addresses}

\* C24: Client::build(address) only captures the address and attempts no
\* connection; an attempt for a Client is made only in create(), one per
\* create call and to the captured address, and create acts on a builder
\* that build returned.
C24_AttemptOnlyInCreate ==
  [][/\ (client' # client /\ client' \notin {Absent, Moved}) =>
          /\ client' \in ClientBuilders
          /\ client' = [remote |-> last'.remote]
          /\ last'.op = "build"
          /\ pending' = pending /\ pending = Absent
          /\ sockets' = sockets /\ held' = held
     /\ (pending' # Absent /\ pending'.op = "create" /\ pending = Absent) =>
          /\ client \in ClientBuilders
          /\ client' = Moved
          /\ pending'.os = "connecting"
          /\ pending'.attempts = <<client.remote>>
     /\ (client' = Moved /\ client # Moved) =>
          /\ pending = Absent
          /\ pending' # Absent /\ pending'.op = "create"
     /\ (pending # Absent /\ pending' # Absent) =>
          pending'.attempts = pending.attempts
     /\ (IsClientCreate(last') /\ last' # last) =>
          /\ pending # Absent /\ pending.op = "create"
          /\ last'.attempts = <<last'.remote>>
          /\ last'.attempts = pending.attempts
    ]_vars

\* C24, its case: a create call has returned after its one attempt, and
\* build has been called again since: the new builder holds an address while
\* no attempt is under way.
C24_BuiltAgainAfterCreate ==
  /\ IsClientCreate(rendered)
  /\ Len(rendered.attempts) = 1
  /\ last.recv = "Client" /\ last.op = "build"
  /\ client = [remote |-> last.remote]
  /\ pending = Absent

\* A step in which Connection::new returns to its caller.
ConnectionNewReturns ==
  pending # Absent /\ pending.op = "new" /\ pending' = Absent

\* C25: Connection::new returns once the operating system has completed or
\* failed the attempt and not before: no timeout or cancellation ends a call
\* whose connect has not completed, a failed attempt is reported as it is and
\* not tried again, and a completed call does return.
C25_ReturnsOnCompletionOnly ==
  /\ [][/\ ConnectionNewReturns =>
             /\ pending.os = "done"
             /\ IsConnectionNew(last')
             /\ last'.ret = pending.ret
             /\ last'.attempts = <<pending.remote>>
             /\ ~pending.ret.ok => last'.ret = ConnectFailure
        /\ (pending # Absent /\ pending.os = "connecting") =>
             /\ pending' # Absent
             /\ pending'.op = pending.op
             /\ pending'.attempts = pending.attempts
        /\ (pending # Absent /\ pending.os = "done") =>
             pending' \in {pending, Absent}
       ]_vars
  /\ (pending # Absent /\ pending.op = "new" /\ pending.os = "done")
       ~> (pending = Absent)

\* C25, its case: Connection::new has reported the failure of its one
\* attempt although a listener accepts at that address by now.
C25_FailureReportedNotRetried ==
  /\ IsConnectionNew(last)
  /\ last.ret = ConnectFailure
  /\ Len(last.attempts) = 1
  /\ network[last.remote] = "listening"
  /\ pending = Absent
  /\ sockets = {}

\* A step in which create turns the builder into the message.
CreateStep == phase = "Building" /\ phase' = "Built"

\* The fields of a message of each kind.
FieldsOf(k) ==
  CASE k = "request" -> {"verb", "target", "headers", "body"}
    [] k = "response" -> {"code", "headers", "body"}
    [] k = "vrequest" -> {"verb", "target", "version", "headers", "body"}

\* What an accessor call on message msg must return: the field it is named
\* after, and for header(key) the value stored under key, if any.
FieldRead(msg, call) ==
  CASE call.op = "body" -> msg.body
    [] call.op = "headers" -> msg.headers
    [] call.op = "target" -> msg.target
    [] call.op = "verb" -> msg.verb
    [] call.op = "code" -> msg.code
    [] call.op = "header" ->
         IF \E i \in 1..Len(msg.headers) : msg.headers[i][1] = call.key
         THEN [some |-> TRUE,
               value |-> msg.headers[CHOOSE i \in 1..Len(msg.headers) :
                                       msg.headers[i][1] = call.key][2]]
         ELSE [some |-> FALSE]

Accessors == {"body", "headers", "target", "verb", "code", "header"}

\* C22: create() copies the builder's state without change: the created
\* message has the fields of its kind, each equal to the builder's field
\* immediately before create, whatever configuration calls came before; and
\* each accessor returns exactly the corresponding field of that message.
C22_CreateCopiesBuilder ==
  /\ [][CreateStep =>
          /\ DOMAIN message' = FieldsOf(kind)
          /\ DOMAIN builder = FieldsOf(kind)
          /\ \A f \in FieldsOf(kind) : message'[f] = builder[f]
          /\ created' = message'
       ]_vars
  /\ [](  (phase = "Built" /\ last.recv \in {"Request", "Response"}
             /\ last.op \in Accessors) =>
          /\ last.ret = FieldRead(message, last)
          /\ last.ret = FieldRead(created, last))

\* C22, its case: a Request was created from a builder configured with two
\* headers and a body, and its headers accessor has returned both entries.
C22_ConfiguredRequestRead ==
  /\ phase = "Built" /\ kind = "request"
  /\ last.recv = "Request" /\ last.op = "headers"
  /\ Len(last.ret) = 2
  /\ message.body # <<>>
  /\ message.verb = "Post"
  /\ message = created

\* The convenience calls and the Content-Type each one writes.
ConvenienceOps == {"json", "url_encoded", "html"}
MimeOf(op) ==
  CASE op = "json" -> MimeJson
    [] op = "url_encoded" -> MimeForm
    [] op = "html" -> MimeHtml

\* The entries of a container under keys other than the two a convenience
\* call writes, in their order.
RECURSIVE OtherEntries(_)
OtherEntries(h) ==
  IF h = <<>> THEN <<>>
  ELSE IF h[1][1] \in {HdrContentType, HdrContentLength}
       THEN OtherEntries(Tail(h))
       ELSE <<h[1]>> \o OtherEntries(Tail(h))

\* C23: json, url_encoded and html overwrite whatever body, Content-Type
\* header and Content-Length header the builder held (afterwards it holds the
\* text, one Content-Type entry with the call's type and one Content-Length
\* entry with the text's byte length), and leave every other header, the verb
\* or code and the target unchanged.
C23_ConvenienceFrame ==
  [][(last'.recv = "Builder" /\ last'.op \in ConvenienceOps) =>
       /\ builder'.body = last'.text
       /\ EntriesUnder(builder'.headers, HdrContentType) = 1
       /\ ValuesOf(builder'.headers, HdrContentType) = {MimeOf(last'.op)}
       /\ EntriesUnder(builder'.headers, HdrContentLength) = 1
       /\ \A d \in ValuesOf(builder'.headers, HdrContentLength) :
            IsDecimalOf(d, ByteLength(last'.text))
       /\ OtherEntries(builder'.headers) = OtherEntries(builder.headers)
       /\ DOMAIN builder' = DOMAIN builder
       /\ \A f \in DOMAIN builder \ {"body", "headers"} :
            builder'[f] = builder[f]
    ]_vars

\* C23, its case: url_encoded was called with the empty text on a Request
\* builder that holds a header under another key, which is still there
\* beside the two entries the call wrote.
C23_UrlEncodedBesideOtherHeader ==
  /\ phase = "Building" /\ kind = "request"
  /\ last.recv = "Builder" /\ last.op = "url_encoded"
  /\ last.text = <<>>
  /\ builder.body = <<>>
  /\ Len(OtherEntries(builder.headers)) = 1
  /\ Len(builder.headers) = 3
  /\ ValuesOf(builder.headers, HdrContentLength) = {Str("0")}

\* The Content-Length header of b states the number n; it is in step with
\* the body when it states the body's byte length.
ContentLengthStates(b, n) ==
  \E d \in ValuesOf(b.headers, HdrContentLength) : IsDecimalOf(d, n)
InStep(b) == ContentLengthStates(b, ByteLength(b.body))

\* The steps that touch the body or the Content-Length header.
BodyStep == last'.recv = "Builder" /\ last'.op = "body"
ContentLengthStep ==
  last'.recv = "Builder" /\ last'.op = "header" /\ last'.key = HdrContentLength
ConvenienceStep == last'.recv = "Builder" /\ last'.op \in ConvenienceOps
AfterConvenience == last.recv = "Builder" /\ last.op \in ConvenienceOps

\* body(u) leaves the headers alone, so after a convenience call with t the
\* Content-Length still states the byte length of t; header("Content-Length",
\* x) leaves the body alone and stores x; create hands both over as they are.
NotKeptInStep ==
  /\ BodyStep =>
       /\ builder'.body = last'.text
       /\ builder'.headers = builder.headers
       /\ AfterConvenience =>
            ContentLengthStates(builder', ByteLength(last.text))
  /\ ContentLengthStep =>
       /\ builder'.body = builder.body
       /\ EntriesUnder(builder'.headers, HdrContentLength) = 1
       /\ ValuesOf(builder'.headers, HdrContentLength) = {last'.value}
       /\ AfterConvenience => builder'.body = last.text
  /\ CreateStep =>
       /\ message'.body = builder.body
       /\ message'.headers = builder.headers

\* C26, as stated: body never changes headers and a Content-Length header
\* call never changes the body, and Content-Length equals the body's byte
\* length only when the last call that touched the body or that header was a
\* convenience call: straight after a body call or a Content-Length header
\* call the two differ.
C26_InStepOnlyAfterConvenience ==
  [][/\ NotKeptInStep
     /\ ConvenienceStep => InStep(builder')
     /\ (BodyStep \/ ContentLengthStep) => ~InStep(builder')
    ]_vars

\* C26, amended: body never changes headers and a Content-Length header call
\* never changes the body; Content-Length equals the body's byte length after
\* every convenience call, while after a body call it does so exactly when
\* the header held already stated the new body's length, and after a
\* Content-Length header call exactly when the caller's value is the decimal
\* byte length of the body held.
C26_InStepGuaranteedOnlyAfterConvenience ==
  [][/\ NotKeptInStep
     /\ ConvenienceStep => InStep(builder')
     /\ BodyStep =>
          (InStep(builder') <=>
             ContentLengthStates(builder, ByteLength(last'.text)))
     /\ ContentLengthStep =>
          (InStep(builder') <=>
             IsDecimalOf(last'.value, ByteLength(builder.body)))
    ]_vars

\* C26, its case: a message was created straight after a body call; its body
\* is one byte long while its Content-Length, which only a convenience call
\* with a four-byte text can have written, states 4.
C26_BodyAfterConvenienceCreated ==
  /\ phase = "Built"
  /\ last.recv = "Builder" /\ last.op = "create" /\ last.after = "body"
  /\ message.body = Str("a")
  /\ ValuesOf(message.headers, HdrContentLength) = {Str("4")}
  /\ ~InStep(message)

\* header(key, value) and body(text) on a builder of kind k.
HeaderOn(k, b, key, value) ==
  CASE k = "request" -> RequestBuilder_header(b, key, value)
    [] k = "response" -> ResponseBuilder_header(b, key, value)
    [] k = "vrequest" -> request_Builder_header(b, key, value)
BodyOn(k, b, text) ==
  CASE k = "request" -> RequestBuilder_body(b, text)
    [] k = "response" -> ResponseBuilder_body(b, text)
    [] k = "vrequest" -> request_Builder_body(b, text)

\* C27: configuration calls that touch different fields commute: on every
\* builder, header calls on two different keys give the same builder in
\* either order, a body call gives the same builder before or after a
\* header call, and body(t), header(Content-Type), header(Content-Length)
\* gives what header(Content-Type), header(Content-Length), body(t) gives.
C27_CallsOnDifferentFieldsCommute ==
  phase = "Building" =>
    /\ \A k1 \in ArgKeys, k2 \in ArgKeys, v1 \in ArgValues,
          v2 \in ArgValues :
         k1 # k2 =>
           HeaderOn(kind, HeaderOn(kind, builder, k1, v1), k2, v2)
             = HeaderOn(kind, HeaderOn(kind, builder, k2, v2), k1, v1)
    /\ \A key \in ArgKeys, value \in ArgValues, text \in ArgTexts :
         BodyOn(kind, HeaderOn(kind, builder, key, value), text)
           = HeaderOn(kind, BodyOn(kind, builder, text), key, value)
    /\ \A text \in ArgTexts, mime \in ArgValues, d \in ArgValues :
         HeaderOn(kind,
                  HeaderOn(kind, BodyOn(kind, builder, text),
                           HdrContentType, mime),
                  HdrContentLength, d)
           = BodyOn(kind,
                    HeaderOn(kind,
                             HeaderOn(kind, builder, HdrContentType, mime),
                             HdrContentLength, d),
                    text)

\* C27, its case: on a Response builder header(Content-Type),
\* header(Content-Length) and then body were called, and the builder is the
\* one that body first and the two header calls after it give.
C27_HeadersThenBodyIsBodyThenHeaders ==
  /\ phase = "Building" /\ kind = "response"
  /\ last.recv = "Builder" /\ last.op = "body"
  /\ last.text = Str("Hello World")
  /\ DOMAIN written = {HdrContentType, HdrContentLength}
  /\ builder =
       ResponseBuilder_header(
         ResponseBuilder_header(
           ResponseBuilder_body(Response_build(builder.code), last.text),
           HdrContentType, written[HdrContentType]),
         HdrContentLength, written[HdrContentLength])

\* The convenience calls a builder of kind k has, and the call op(text) on
\* builder b.
ConvenienceOpsOf(k) ==
  CASE k = "request" -> {"json", "url_encoded"}
    [] k = "response" -> {"json", "url_encoded", "html"}
    [] k = "vrequest" -> {}
ConvenienceOn(k, op, b, text) ==
  CASE k = "request" /\ op = "json" -> RequestBuilder_json(b, text)
    [] k = "request" /\ op = "url_encoded" -> RequestBuilder_url_encoded(b, text)
    [] k = "response" /\ op = "json" -> ResponseBuilder_json(b, text)
    [] k = "response" /\ op = "url_encoded" ->
         ResponseBuilder_url_encoded(b, text)
    [] k = "response" /\ op = "html" -> ResponseBuilder_html(b, text)

\* C28: the convenience calls are idempotent and the last one wins: on every
\* builder, a convenience call applied twice with the same text gives what
\* it gives applied once, and for any two convenience calls f, g of the
\* builder and texts a, b, f(a) then g(b) gives what g(b) alone gives.
C28_LastConvenienceCallWins ==
  phase = "Building" =>
    \A f \in ConvenienceOpsOf(kind), g \in ConvenienceOpsOf(kind),
       a \in ArgTexts, b \in ArgTexts :
      /\ ConvenienceOn(kind, f, ConvenienceOn(kind, f, builder, a), a)
           = ConvenienceOn(kind, f, builder, a)
      /\ ConvenienceOn(kind, g, ConvenienceOn(kind, f, builder, a), b)
           = ConvenienceOn(kind, g, builder, b)

\* C28, its case: html("a") has acted on a Response builder and left what
\* json("Hello World") followed by html("a") leaves on a new builder.
C28_HtmlAsAfterJson ==
  /\ phase = "Building" /\ kind = "response"
  /\ last.recv = "Builder" /\ last.op = "html"
  /\ last.text = Str("a")
  /\ builder =
       ResponseBuilder_html(
         ResponseBuilder_json(Response_build(builder.code),
                              Str("Hello World")),
         last.text)

\* The http1 builder or Request that stands for a version-aware one: the same
\* verb, target, headers and body, the version left out.
Http1Twin(r) == [f \in DOMAIN r \ {"version"} |-> r[f]]

\* The token both implementations put after the target.
VersionToken == Str("HTTP/1.1")

\* C29: the two request implementations agree: every call on the
\* version-aware builder or Request, built with Version::Http1_1, is matched
\* by the same call of the http1 implementation on its counterpart (build,
\* header, body, create), and the rendering of the version-aware Request is
\* the text the http1 Request renders to, with the version token "HTTP/1.1".
C29_VersionAwareRendersAsHttp1 ==
  [][kind' = "vrequest" =>
       /\ (last'.recv = "Request" /\ last'.op = "build") =>
            /\ last'.version = "Http1_1"
            /\ Http1Twin(builder') = Request_build(last'.verb, last'.target)
       /\ (last'.recv = "Builder" /\ last'.op = "header"
             /\ phase = "Building") =>
            Http1Twin(builder')
              = RequestBuilder_header(Http1Twin(builder), last'.key,
                                      last'.value)
       /\ (last'.recv = "Builder" /\ last'.op = "body"
             /\ phase = "Building") =>
            Http1Twin(builder')
              = RequestBuilder_body(Http1Twin(builder), last'.text)
       /\ CreateStep =>
            Http1Twin(message') = RequestBuilder_create(Http1Twin(builder))
       /\ (last'.recv = "Request" /\ last'.op = "to_string") =>
            /\ last'.ret = Request_fmt(Http1Twin(message))
            /\ last'.ret =
                 VerbToken(message.verb) \o SP \o message.target \o SP
                   \o VersionToken \o LF
                   \o SubSeq(last'.ret,
                             Len(VerbToken(message.verb)) + Len(message.target)
                               + Len(VersionToken) + 4,
                             Len(last'.ret))
    ]_vars

\* C29, its case: a version-aware Request with a header and a body was
\* rendered, to the text of the http1 Request with the same fields.
C29_VersionAwareRequestRendered ==
  /\ phase = "Built" /\ kind = "vrequest"
  /\ last.recv = "Request" /\ last.op = "to_string"
  /\ Len(message.headers) >= 1
  /\ message.body # <<>>
  /\ message.version = "Http1_1"
  /\ last.ret = Request_fmt(Http1Twin(message))

\* Text t holds the text sub somewhere.
Holds(t, sub) ==
  \E i \in 1..(Len(t) - Len(sub) + 1) : SubSeq(t, i, i + Len(sub) - 1) = sub

\* A Request whose texts stay clear of the format's delimiters: no line feed
\* in the target, in a header key or in a header value, no ": " in a header
\* key.
ClearOfDelimiters(r) ==
  /\ ~Holds(r.target, LF)
  /\ \A i \in 1..Len(r.headers) :
       /\ ~Holds(r.headers[i][1], LF)
       /\ ~Holds(r.headers[i][1], COLON_SP)
       /\ ~Holds(r.headers[i][2], LF)

\* Two Requests, one after the other, have been rendered, and they differ.
TwoRequestsRendered ==
  /\ last.recv = "Request" /\ last.op = "to_string"
  /\ rendered.recv = "Request" /\ rendered.op = "to_string"
  /\ last.of # rendered.of

\* C30: rendering neither checks nor escapes its inputs: two different
\* requests whose target, header keys and header values hold no line feed and
\* whose header keys hold no ": " render to different texts, and two
\* different requests render to the same text only when one of them is
\* outside that condition.
C30_DifferentRequestsDifferentText ==
  TwoRequestsRendered =>
    /\ (ClearOfDelimiters(last.of) /\ ClearOfDelimiters(rendered.of)) =>
         last.ret # rendered.ret
    /\ last.ret = rendered.ret =>
         ~ClearOfDelimiters(last.of) \/ ~ClearOfDelimiters(rendered.of)
    /\ last.ret = Request_fmt(last.of)
    /\ rendered.ret = Request_fmt(rendered.of)

\* C30, its case: a request with one header, whose value holds a line feed
\* followed by "k: 1", was rendered to the very text a request with the two
\* headers a and k had been rendered to before.
C30_ValueRenderedAsSecondHeader ==
  /\ TwoRequestsRendered
  /\ last.ret = rendered.ret
  /\ Len(last.of.headers) = 1
  /\ Holds(last.of.headers[1][2], LF \o Str("k: 1"))
  /\ Len(rendered.of.headers) = 2
  /\ ClearOfDelimiters(rendered.of)
  /\ last.of.body = rendered.of.body

====
